---------------------------- MODULE Spec2Model ----------------------------
(***************************************************************************)
(* A model of simple-loki-mcp: the query-loki / get-labels /               *)
(* get-label-values tools (src/src/index.ts), LokiClient                   *)
(* (src/src/utils/loki-client.ts, the revision with the HTTP fallback),    *)
(* LokiQueryBuilder (src/src/utils/loki-query-builder.ts) and LokiAuth     *)
(* (src/src/utils/loki-auth.ts).                                           *)
(*                                                                         *)
(* JavaScript strings that the code only concatenates (argument tokens)    *)
(* are TLA+ strings; strings whose characters the code or a claim looks    *)
(* at (response bodies, formatted output) are sequences of one-character   *)
(* strings.  An object is a function from its own property names, so an    *)
(* unset option is a name missing from DOMAIN.  A Date is a record         *)
(* [valid, ms]: ms since the epoch, valid = FALSE for an Invalid Date.     *)
(***************************************************************************)
EXTENDS Integers, Sequences, FiniteSets, TLC

VARIABLES
    \* LokiQueryBuilder under test
    options,        \* the LokiQueryOptions value handed to the builder
    now,            \* what Date.now() returns, ms
    built,          \* the completion of the builder call
    builderPc,      \* "off" | "ready" | "done" | "global"
    \* LokiClient.formatHttpResponse under test
    responseData,   \* the parsed response body handed to the formatter
    fmtOptions,     \* the LokiQueryOptions value handed to the formatter
    formatted,      \* the completion of the formatter call
    fmtPc,          \* "off" | "ready" | "done"
    \* LokiAuth
    env,            \* process.env: variable name -> text
    files,          \* the file system: path -> [exists, load]
    config,         \* LokiAuth.config
    authLog,        \* the warnings LokiAuth has logged
    authPc,         \* "new" | "env" | "file" | "done" | "threw": the
                    \* constructor's place; "read" after getConfig(),
                    \* "changed" after the caller has written to the view,
                    \* "args" after getAuthArgs(), "valid" after
                    \* isConfigValid()
    safeConfig,     \* what the last getConfig() returned
    authReturned,   \* the completion of the last getAuthArgs() or
                    \* isConfigValid()
    \* LokiClient and the tool calls in flight
    process,        \* the Node process: running or not, the errors its
                    \* process-level handlers have taken
    hasLogCli,      \* LokiClient.hasLogCli: null, true or false
    calls           \* call number -> the tool call and its LokiClient call

builderVars == <<options, now, built, builderPc>>

formatterVars == <<responseData, fmtOptions, formatted, fmtPc>>

authVars == <<env, files, config, authLog, authPc, safeConfig, authReturned>>

clientVars == <<process, hasLogCli, calls>>

vars == <<options, now, built, builderPc,
          responseData, fmtOptions, formatted, fmtPc,
          env, files, config, authLog, authPc, safeConfig, authReturned,
          process, hasLogCli, calls>>

-----------------------------------------------------------------------------
(* Bounds of the model *)

\* number of distinct valid instants offered for each of from / to
MaxDates == 2

\* most entries in the result array of a response
MaxStreams == 2

\* most [timestamp, line] or [timestamp, value] pairs in one entry
MaxValues == 2

\* number of tool calls in one behaviour; they may all be in flight at once
MaxCalls == 2

\* number of uncaught exceptions and unhandled rejections in one behaviour
MaxErrors == 2

-----------------------------------------------------------------------------
(* JavaScript values *)

\* an object without own properties: {}
EmptyObject == [k \in {} |-> 0]

Has(obj, key) == key \in DOMAIN obj

\* a normal completion / an abrupt completion (throw) of a call
Return(v) == [ok |-> TRUE, value |-> v]

Throw(e) == [ok |-> FALSE, error |-> e]

\* the error objects the runtime itself throws
RangeError(msg) == [name |-> "RangeError", message |-> msg]

TypeError(msg) == [name |-> "TypeError", message |-> msg]

DigitChars == <<"0", "1", "2", "3", "4", "5", "6", "7", "8", "9">>

DigitChar(d) == DigitChars[d + 1]

RECURSIVE NatToChars(_)
\* Number.prototype.toString of a non-negative integer
NatToChars(n) ==
    IF n < 10 THEN <<DigitChar(n)>>
    ELSE NatToChars(n \div 10) \o <<DigitChar(n % 10)>>

\* String(n) / `${n}` of an integer
NumToChars(n) == IF n < 0 THEN <<"-">> \o NatToChars(-n) ELSE NatToChars(n)

RECURSIVE Pad(_, _)
\* String(n).padStart(w, "0") of a non-negative integer
Pad(n, w) ==
    IF w <= 1 THEN NatToChars(n)
    ELSE IF Len(NatToChars(n)) >= w THEN NatToChars(n)
    ELSE <<"0">> \o Pad(n, w - 1)

RECURSIVE Join(_)
\* the JavaScript string made of the characters cs
Join(cs) ==
    IF cs = <<>> THEN ""
    ELSE IF Len(cs) = 1 THEN cs[1]
    ELSE LET half == Len(cs) \div 2
         IN Join(SubSeq(cs, 1, half)) \o Join(SubSeq(cs, half + 1, Len(cs)))

-----------------------------------------------------------------------------
(* Date *)

MsPerSecond == 1 * 1000

MsPerMinute == 60 * 1000

MsPerHour == 60 * 60 * 1000

MsPerDay == 24 * 60 * 60 * 1000

ValidDate(ms) == [valid |-> TRUE, ms |-> ms]

InvalidDate == [valid |-> FALSE, ms |-> 0]

\* the calendar date of day number d (days since 1970-01-01), for the days
\* of December 1969 and January 1970, which hold every instant of the model
DateChars(d) ==
    IF d < 0
    THEN <<"1", "9", "6", "9", "-", "1", "2", "-">> \o Pad(31 + d + 1, 2)
    ELSE <<"1", "9", "7", "0", "-", "0", "1", "-">> \o Pad(d + 1, 2)

\* Date.prototype.toISOString: YYYY-MM-DDTHH:mm:ss.sssZ, or a RangeError
\* for an Invalid Date
toISOString(date) ==
    IF ~date.valid THEN Throw(RangeError("Invalid time value"))
    ELSE LET day == date.ms \div MsPerDay
             inDay == date.ms % MsPerDay
         IN Return(DateChars(day) \o <<"T">>
                   \o Pad(inDay \div MsPerHour, 2) \o <<":">>
                   \o Pad((inDay % MsPerHour) \div MsPerMinute, 2) \o <<":">>
                   \o Pad((inDay % MsPerMinute) \div MsPerSecond, 2) \o <<".">>
                   \o Pad(inDay % MsPerSecond, 3) \o <<"Z">>)

-----------------------------------------------------------------------------
(* LokiQueryBuilder *)

\* JavaScript truthiness of a number: not 0 (NaN is not modelled)
TruthyNumber(n) == n # 0

\* the global arguments with the output mode before --quiet
buildGlobalArgs_OutputFirst(opts) ==
    (IF Has(opts, "output") THEN <<"--output=" \o opts.output>> ELSE <<>>)
    \o (IF Has(opts, "quiet") /\ opts.quiet THEN <<"--quiet">> ELSE <<>>)

\* buildGlobalArgs(options)
buildGlobalArgs(opts) ==
    (IF Has(opts, "quiet") /\ opts.quiet THEN <<"--quiet">> ELSE <<>>)
    \o (IF Has(opts, "output") THEN <<"--output=" \o opts.output>> ELSE <<>>)

\* the tokens after --from and --to: --limit, --batch, --forward
LimitBatchForwardArgs(opts) ==
    (IF Has(opts, "limit") /\ TruthyNumber(opts.limit)
     THEN <<"--limit=" \o Join(NumToChars(opts.limit))>> ELSE <<>>)
    \o (IF Has(opts, "batch") /\ TruthyNumber(opts.batch)
        THEN <<"--batch=" \o Join(NumToChars(opts.batch))>> ELSE <<>>)
    \o (IF Has(opts, "forward") /\ opts.forward THEN <<"--forward">> ELSE <<>>)

\* the query-specific arguments without the defaults of --from and --to
buildQuerySpecificArgs_NoDefaults(opts, nowMs) ==
    LET fromIso == IF Has(opts, "from") THEN toISOString(opts.from)
                   ELSE Return(<<>>)
        toIso == IF Has(opts, "to") THEN toISOString(opts.to)
                 ELSE Return(<<>>)
    IN IF ~fromIso.ok THEN fromIso
       ELSE IF ~toIso.ok THEN toIso
       ELSE Return((IF Has(opts, "from")
                    THEN <<"--from=" \o Join(fromIso.value)>> ELSE <<>>)
                   \o (IF Has(opts, "to")
                       THEN <<"--to=" \o Join(toIso.value)>> ELSE <<>>)
                   \o LimitBatchForwardArgs(opts))

\* buildQuerySpecificArgs(options) when Date.now() is nowMs: the argument
\* list, or the exception of toISOString
buildQuerySpecificArgs(opts, nowMs) ==
    LET fromIso == IF Has(opts, "from") THEN toISOString(opts.from)
                   ELSE toISOString(ValidDate(nowMs - 60 * 60 * 1000))
        toIso == IF Has(opts, "to") THEN toISOString(opts.to)
                 ELSE Return(<<"n", "o", "w">>)
    IN IF ~fromIso.ok THEN fromIso
       ELSE IF ~toIso.ok THEN toIso
       ELSE Return(<<"--from=" \o Join(fromIso.value),
                     "--to=" \o Join(toIso.value)>>
                   \o LimitBatchForwardArgs(opts))

\* buildStreamArgs()
buildStreamArgs == <<"--tail">>

\* export const DEFAULT_LIMIT
DEFAULT_LIMIT == 1000

-----------------------------------------------------------------------------
(* JSON values: what axios hands over as response.data *)

JUndefined == [t |-> "undefined"]

JNull == [t |-> "null"]

JStr(cs) == [t |-> "str", v |-> cs]

JNum(n) == [t |-> "num", v |-> n]

JBool(b) == [t |-> "bool", v |-> b]

JArr(items) == [t |-> "arr", v |-> items]

\* an object: its properties in insertion order, each <<name, value>>
JObj(props) == [t |-> "obj", v |-> props]

Nullish(v) == v.t \in {"undefined", "null"}

\* ToBoolean
Truthy(v) ==
    CASE v.t \in {"undefined", "null"} -> FALSE
      [] v.t = "str" -> v.v # <<>>
      [] v.t = "num" -> v.v # 0
      [] v.t = "bool" -> v.v
      [] OTHER -> TRUE

\* v[key] of a value that is not null or undefined
Get(v, key) ==
    IF v.t = "obj" /\ \E i \in DOMAIN v.v : v.v[i][1] = key
    THEN v.v[CHOOSE i \in DOMAIN v.v : v.v[i][1] = key][2]
    ELSE JUndefined

\* v.key: a TypeError when v is null or undefined
GetProp(v, key) ==
    IF Nullish(v)
    THEN Throw(TypeError("Cannot read properties of " \o v.t))
    ELSE Return(Get(v, key))

\* the elements a for...of loop or an array destructuring draws from v
Iterate(v) ==
    CASE v.t = "arr" -> Return(v.v)
      [] v.t = "str" -> Return([i \in DOMAIN v.v |-> JStr(<<v.v[i]>>)])
      [] OTHER -> Throw(TypeError(v.t \o " is not iterable"))

At(items, i) == IF i \in DOMAIN items THEN items[i] ELSE JUndefined

RECURSIVE Flatten(_)
\* the concatenation of a sequence of sequences
Flatten(seqs) == IF seqs = <<>> THEN <<>> ELSE Head(seqs) \o Flatten(Tail(seqs))

RECURSIVE JoinWith(_, _)
\* Array.prototype.join: the texts separated by sep
JoinWith(texts, sep) ==
    IF texts = <<>> THEN <<>>
    ELSE IF Len(texts) = 1 THEN texts[1]
    ELSE texts[1] \o sep \o JoinWith(Tail(texts), sep)

RECURSIVE ToStringChars(_)
\* String(v), as a template literal applies it
ToStringChars(v) ==
    CASE v.t = "str" -> v.v
      [] v.t = "num" -> NumToChars(v.v)
      [] v.t = "bool" -> IF v.v THEN <<"t", "r", "u", "e">>
                         ELSE <<"f", "a", "l", "s", "e">>
      [] v.t = "null" -> <<"n", "u", "l", "l">>
      [] v.t = "undefined" -> <<"u", "n", "d", "e", "f", "i", "n", "e", "d">>
      [] v.t = "arr" ->
            JoinWith([i \in DOMAIN v.v |->
                        IF Nullish(v.v[i]) THEN <<>> ELSE ToStringChars(v.v[i])],
                     <<",">>)
      [] OTHER -> <<"[", "o", "b", "j", "e", "c", "t", " ",
                    "O", "b", "j", "e", "c", "t", "]">>

\* Object.entries(v): a TypeError for null and undefined
ObjectEntries(v) ==
    CASE Nullish(v) ->
            Throw(TypeError("Cannot convert undefined or null to object"))
      [] v.t = "obj" -> Return(v.v)
      [] v.t = "arr" -> Return([i \in DOMAIN v.v |-> <<NatToChars(i - 1), v.v[i]>>])
      [] v.t = "str" ->
            Return([i \in DOMAIN v.v |-> <<NatToChars(i - 1), JStr(<<v.v[i]>>)>>])
      [] OTHER -> Return(<<>>)

\* the first abrupt completion of a sequence of completions, or else the
\* concatenation of their texts
ConcatCompletions(cs) ==
    IF \E i \in DOMAIN cs : ~cs[i].ok
    THEN cs[CHOOSE i \in DOMAIN cs :
                ~cs[i].ok /\ \A j \in 1..(i - 1) : cs[j].ok]
    ELSE Return(Flatten([i \in DOMAIN cs |-> cs[i].value]))

\* one character inside a JSON string literal
JsonEscapeChar(c) ==
    CASE c = "\"" -> <<"\\", "\"">>
      [] c = "\\" -> <<"\\", "\\">>
      [] c = "\n" -> <<"\\", "n">>
      [] c = "\r" -> <<"\\", "r">>
      [] c = "\t" -> <<"\\", "t">>
      [] OTHER -> <<c>>

\* JSON.stringify of a string
JsonQuote(cs) ==
    <<"\"">> \o Flatten([i \in DOMAIN cs |-> JsonEscapeChar(cs[i])]) \o <<"\"">>

Spaces(n) == [i \in 1..n |-> " "]

\* SelectSeq without an operator argument: the properties JSON.stringify
\* keeps, those whose value is not undefined
RECURSIVE DefinedProps(_)
DefinedProps(props) ==
    IF props = <<>> THEN <<>>
    ELSE IF Head(props)[2].t = "undefined" THEN DefinedProps(Tail(props))
    ELSE <<Head(props)>> \o DefinedProps(Tail(props))

RECURSIVE JsonStringify(_, _, _)
\* JSON.stringify(v, null, indent) at nesting depth level; indent = 0 is
\* JSON.stringify(v)
JsonStringify(v, indent, level) ==
    LET pretty == indent > 0
        open == IF pretty THEN <<"\n">> \o Spaces(indent * (level + 1)) ELSE <<>>
        sep == <<",">> \o open
        close == IF pretty THEN <<"\n">> \o Spaces(indent * level) ELSE <<>>
        colon == IF pretty THEN <<":", " ">> ELSE <<":">>
    IN CASE v.t = "str" -> JsonQuote(v.v)
         [] v.t = "num" -> NumToChars(v.v)
         [] v.t = "bool" -> IF v.v THEN <<"t", "r", "u", "e">>
                            ELSE <<"f", "a", "l", "s", "e">>
         [] v.t \in {"null", "undefined"} -> <<"n", "u", "l", "l">>
         [] v.t = "arr" ->
               IF v.v = <<>> THEN <<"[", "]">>
               ELSE <<"[">> \o open
                    \o JoinWith([i \in DOMAIN v.v |->
                                    JsonStringify(v.v[i], indent, level + 1)], sep)
                    \o close \o <<"]">>
         [] OTHER ->
               LET props == DefinedProps(v.v) IN
               IF props = <<>> THEN <<"{", "}">>
               ELSE <<"{">> \o open
                    \o JoinWith([i \in DOMAIN props |->
                                    JsonQuote(props[i][1]) \o colon
                                    \o JsonStringify(props[i][2], indent, level + 1)],
                                sep)
                    \o close \o <<"}">>

IsDigit(c) == c \in {"0", "1", "2", "3", "4", "5", "6", "7", "8", "9"}

DigitValue(c) == CHOOSE d \in 0..9 : DigitChar(d) = c

RECURSIVE LeadingDigits(_)
\* the longest prefix of cs made of decimal digits
LeadingDigits(cs) ==
    IF cs = <<>> \/ ~IsDigit(Head(cs)) THEN <<>>
    ELSE <<Head(cs)>> \o LeadingDigits(Tail(cs))

RECURSIVE DigitsValue(_)
DigitsValue(ds) ==
    IF ds = <<>> THEN 0
    ELSE DigitsValue(SubSeq(ds, 1, Len(ds) - 1)) * 10 + DigitValue(ds[Len(ds)])

\* parseInt(cs) of a decimal text: an optional sign and the leading digits;
\* [nan |-> TRUE] when there is no digit
parseInt(cs) ==
    LET neg == cs # <<>> /\ Head(cs) = "-"
        signed == cs # <<>> /\ Head(cs) \in {"-", "+"}
        ds == LeadingDigits(IF signed THEN Tail(cs) ELSE cs)
    IN IF ds = <<>> THEN [nan |-> TRUE, n |-> 0]
       ELSE [nan |-> FALSE, n |-> IF neg THEN -DigitsValue(ds) ELSE DigitsValue(ds)]

\* the integer part of a / b for b > 0, as new Date(a / b) keeps it
TruncDiv(a, b) == IF a >= 0 THEN a \div b ELSE -((-a) \div b)

\* new Date(x) of a parseInt result divided by per
DateOfQuotient(parsed, per) ==
    IF parsed.nan THEN InvalidDate ELSE ValidDate(TruncDiv(parsed.n, per))

-----------------------------------------------------------------------------
(* LokiClient.formatHttpResponse *)

NL == <<"\n">>

NoResultsFound ==
    <<"N", "o", " ", "r", "e", "s", "u", "l", "t", "s", " ",
      "f", "o", "u", "n", "d", ".">>

K_status == <<"s", "t", "a", "t", "u", "s">>

K_data == <<"d", "a", "t", "a">>

K_resultType == <<"r", "e", "s", "u", "l", "t", "T", "y", "p", "e">>

K_result == <<"r", "e", "s", "u", "l", "t">>

K_stream == <<"s", "t", "r", "e", "a", "m">>

K_metric == <<"m", "e", "t", "r", "i", "c">>

K_values == <<"v", "a", "l", "u", "e", "s">>

K_value == <<"v", "a", "l", "u", "e">>

K_timestamp == <<"t", "i", "m", "e", "s", "t", "a", "m", "p">>

K_labels == <<"l", "a", "b", "e", "l", "s">>

K_line == <<"l", "i", "n", "e">>

T_streams == <<"s", "t", "r", "e", "a", "m", "s">>

T_vector == <<"v", "e", "c", "t", "o", "r">>

T_matrix == <<"m", "a", "t", "r", "i", "x">>

\* formatLabels(labels): {k1="v1", k2="v2"} in the order of Object.entries
formatLabels(labels) ==
    LET entries == ObjectEntries(labels) IN
    IF ~entries.ok THEN entries
    ELSE Return(<<"{">>
                \o JoinWith([i \in DOMAIN entries.value |->
                                entries.value[i][1] \o <<"=", "\"">>
                                \o ToStringChars(entries.value[i][2]) \o <<"\"">>],
                            <<",", " ">>)
                \o <<"}">>)

OutputIs(opts, mode) == Has(opts, "output") /\ opts.output = mode

Quiet(opts) == Has(opts, "quiet") /\ opts.quiet

\* the body of the inner loop for one [timestamp, line] of a stream
StreamPairChunk(pair, streamLabels, opts) ==
    LET it == Iterate(pair) IN
    IF ~it.ok THEN it
    ELSE LET timestamp == At(it.value, 1)
             line == At(it.value, 2)
         IN IF OutputIs(opts, "jsonl")
            THEN Return(JsonStringify(JObj(<< <<K_timestamp, timestamp>>,
                                              <<K_labels, streamLabels>>,
                                              <<K_line, line>> >>), 0, 0) \o NL)
            ELSE IF OutputIs(opts, "raw")
            THEN Return(ToStringChars(line) \o NL)
            ELSE LET iso == toISOString(DateOfQuotient(
                                parseInt(ToStringChars(timestamp)), 1000000))
                 IN IF ~iso.ok THEN iso
                    ELSE Return(iso.value \o <<" ">> \o ToStringChars(line) \o NL)

\* the outer loop body that writes the label-set line and the blank line
\* whatever options.quiet says
StreamChunk_IgnoresQuiet(stream, opts) ==
    LET labelsProp == GetProp(stream, K_stream) IN
    IF ~labelsProp.ok THEN labelsProp
    ELSE LET labels == formatLabels(labelsProp.value) IN
    IF ~labels.ok THEN labels
    ELSE LET it == Iterate(Get(stream, K_values)) IN
    IF ~it.ok THEN it
    ELSE LET body == ConcatCompletions([i \in DOMAIN it.value |->
                        StreamPairChunk(it.value[i], labelsProp.value, opts)])
         IN IF ~body.ok THEN body
            ELSE Return(labels.value \o NL \o body.value \o NL)

\* the body of the outer loop for one stream
StreamChunk(stream, opts) ==
    LET labelsProp == GetProp(stream, K_stream) IN
    IF ~labelsProp.ok THEN labelsProp
    ELSE LET labels == formatLabels(labelsProp.value) IN
    IF ~labels.ok THEN labels
    ELSE LET it == Iterate(Get(stream, K_values)) IN
    IF ~it.ok THEN it
    ELSE LET body == ConcatCompletions([i \in DOMAIN it.value |->
                        StreamPairChunk(it.value[i], labelsProp.value, opts)])
         IN IF ~body.ok THEN body
            ELSE Return((IF Quiet(opts) THEN <<>> ELSE labels.value \o NL)
                        \o body.value
                        \o (IF Quiet(opts) THEN <<>> ELSE NL))

\* ToNumber, as the * operator applies it
ToNumber(v) ==
    CASE v.t = "num" -> [nan |-> FALSE, n |-> v.v]
      [] v.t = "null" -> [nan |-> FALSE, n |-> 0]
      [] v.t = "bool" -> [nan |-> FALSE, n |-> IF v.v THEN 1 ELSE 0]
      [] v.t = "undefined" -> [nan |-> TRUE, n |-> 0]
      [] OTHER ->
            LET cs == ToStringChars(v)
                parsed == parseInt(cs)
                signed == cs # <<>> /\ Head(cs) \in {"-", "+"}
                digits == IF signed THEN Tail(cs) ELSE cs
            IN IF cs = <<>> THEN [nan |-> FALSE, n |-> 0]
               ELSE IF \A i \in DOMAIN digits : IsDigit(digits[i]) THEN parsed
               ELSE [nan |-> TRUE, n |-> 0]

\* the body of the vector loop for one item
VectorChunk(item, opts) ==
    LET metric == GetProp(item, K_metric) IN
    IF ~metric.ok THEN metric
    ELSE LET labels == formatLabels(metric.value) IN
    IF ~labels.ok THEN labels
    ELSE LET it == Iterate(Get(item, K_value)) IN
    IF ~it.ok THEN it
    ELSE Return(labels.value \o <<" ">> \o ToStringChars(At(it.value, 2)) \o NL)

\* the body of the inner matrix loop for one [timestamp, value]
MatrixPairChunk(pair) ==
    LET it == Iterate(pair) IN
    IF ~it.ok THEN it
    ELSE LET seconds == ToNumber(At(it.value, 1))
             date == IF seconds.nan THEN InvalidDate
                     ELSE ValidDate(seconds.n * 1000)
             iso == toISOString(date)
         IN IF ~iso.ok THEN iso
            ELSE Return(<<" ", " ">> \o iso.value \o <<" ">>
                        \o ToStringChars(At(it.value, 2)) \o NL)

\* a matrix block without the blank line after it
MatrixChunk_NoSeparator(item, opts) ==
    LET metric == GetProp(item, K_metric) IN
    IF ~metric.ok THEN metric
    ELSE LET labels == formatLabels(metric.value) IN
    IF ~labels.ok THEN labels
    ELSE LET it == Iterate(Get(item, K_values)) IN
    IF ~it.ok THEN it
    ELSE LET body == ConcatCompletions([i \in DOMAIN it.value |->
                        MatrixPairChunk(it.value[i])])
         IN IF ~body.ok THEN body
            ELSE Return(labels.value \o NL \o body.value)

\* the body of the outer matrix loop for one item
MatrixChunk(item, opts) ==
    LET metric == GetProp(item, K_metric) IN
    IF ~metric.ok THEN metric
    ELSE LET labels == formatLabels(metric.value) IN
    IF ~labels.ok THEN labels
    ELSE LET it == Iterate(Get(item, K_values)) IN
    IF ~it.ok THEN it
    ELSE LET body == ConcatCompletions([i \in DOMAIN it.value |->
                        MatrixPairChunk(it.value[i])])
         IN IF ~body.ok THEN body
            ELSE Return(labels.value \o NL \o body.value \o NL)

\* the guard of formatHttpResponse: responseData, its data and its result
\* are all truthy
HasResult(body) ==
    /\ Truthy(body)
    /\ Truthy(Get(body, K_data))
    /\ Truthy(Get(Get(body, K_data), K_result))

\* formatHttpResponse(responseData, options): the text, or what it throws
formatHttpResponse(body, opts) ==
    IF ~HasResult(body) THEN Return(NoResultsFound)
    ELSE LET data == Get(body, K_data)
             resultType == Get(data, K_resultType)
             it == Iterate(Get(data, K_result))
         IN CASE resultType = JStr(T_streams) ->
                    IF ~it.ok THEN it
                    ELSE ConcatCompletions([i \in DOMAIN it.value |->
                                               StreamChunk(it.value[i], opts)])
              [] resultType = JStr(T_vector) ->
                    IF ~it.ok THEN it
                    ELSE ConcatCompletions([i \in DOMAIN it.value |->
                                               VectorChunk(it.value[i], opts)])
              [] resultType = JStr(T_matrix) ->
                    IF ~it.ok THEN it
                    ELSE ConcatCompletions([i \in DOMAIN it.value |->
                                               MatrixChunk(it.value[i], opts)])
              [] OTHER -> Return(JsonStringify(body, 2, 0))

-----------------------------------------------------------------------------
(* LokiAuth *)

\* the characters of a TLA+ string literal that the model needs: the texts
\* of the environment and of the configuration files
Chars(str) ==
    CASE str = "" -> <<>>
      [] str = "true" -> <<"t", "r", "u", "e">>
      [] str = "false" -> <<"f", "a", "l", "s", "e">>
      [] str = "yes" -> <<"y", "e", "s">>
      [] str = "http://e" -> <<"h", "t", "t", "p", ":", "/", "/", "e">>
      [] str = "http://f" -> <<"h", "t", "t", "p", ":", "/", "/", "f">>
      [] str = "http://g" -> <<"h", "t", "t", "p", ":", "/", "/", "g">>
      [] str = "http://h" -> <<"h", "t", "t", "p", ":", "/", "/", "h">>
      [] str = "loki" -> <<"l", "o", "k", "i">>
      [] str = "ue" -> <<"u", "e">>
      [] str = "uf" -> <<"u", "f">>
      [] str = "ug" -> <<"u", "g">>
      [] str = "uh" -> <<"u", "h">>
      [] str = "p w" -> <<"p", " ", "w">>
      [] str = "tk" -> <<"t", "k">>
      [] str = "t1" -> <<"t", "1">>

\* the string fields of LokiAuthConfig, in the order loadFromEnv and
\* getAuthArgs go through them: <<field, environment variable, logcli flag>>
StringFields ==
    << <<"addr", "LOKI_ADDR", "--addr=">>,
       <<"username", "LOKI_USERNAME", "--username=">>,
       <<"password", "LOKI_PASSWORD", "--password=">>,
       <<"tenant_id", "LOKI_TENANT_ID", "--tenant-id=">>,
       <<"bearer_token", "LOKI_BEARER_TOKEN", "--bearer-token=">>,
       <<"bearer_token_file", "LOKI_BEARER_TOKEN_FILE", "--bearer-token-file=">>,
       <<"ca_file", "LOKI_CA_FILE", "--ca-file=">>,
       <<"cert_file", "LOKI_CERT_FILE", "--cert-file=">>,
       <<"key_file", "LOKI_KEY_FILE", "--key-file=">>,
       <<"org_id", "LOKI_ORG_ID", "--org-id=">> >>

\* process.env.NAME is truthy: set, and not the empty string
EnvTruthy(e, name) == Has(e, name) /\ e[name] # <<>>

\* the configuration after loadFromEnv(): every field whose variable is
\* truthy is assigned, the others keep what they had
loadFromEnv(cfg, e) ==
    LET set == {i \in DOMAIN StringFields : EnvTruthy(e, StringFields[i][2])}
        strings == [f \in {StringFields[i][1] : i \in set} |->
                      JStr(e[StringFields[CHOOSE i \in set :
                                               StringFields[i][1] = f][2]])]
        tls == IF EnvTruthy(e, "LOKI_TLS_SKIP_VERIFY")
               THEN "tls_skip_verify" :>
                        JBool(e["LOKI_TLS_SKIP_VERIFY"] = Chars("true"))
               ELSE EmptyObject
    IN tls @@ strings @@ cfg

\* the candidate paths of loadFromConfigFile, in order: the custom path
\* (dropped by filter(Boolean) when unset or empty), the file of the
\* current directory, the file of the home directory
CustomPath == "$LOKI_CONFIG_PATH"

CwdPath == "./logcli-config.yaml"

HomePath == "~/.logcli-config.yaml"

\* the home directory tried before the current directory
configPaths_HomeFirst(e) ==
    (IF EnvTruthy(e, "LOKI_CONFIG_PATH") THEN <<CustomPath>> ELSE <<>>)
    \o <<HomePath, CwdPath>>

configPaths(e) ==
    (IF EnvTruthy(e, "LOKI_CONFIG_PATH") THEN <<CustomPath>> ELSE <<>>)
    \o <<CwdPath, HomePath>>

\* { ...v }: the own enumerable properties of a value, as an object
Spread(v) ==
    CASE v.t = "obj" ->
            [k \in {Join(v.v[i][1]) : i \in DOMAIN v.v} |->
                v.v[CHOOSE i \in DOMAIN v.v : Join(v.v[i][1]) = k][2]]
      [] v.t = "str" -> [k \in {Join(NatToChars(i - 1)) : i \in DOMAIN v.v} |->
                            JStr(<<v.v[CHOOSE i \in DOMAIN v.v :
                                           Join(NatToChars(i - 1)) = k]>>)]
      [] OTHER -> EmptyObject

\* { ...parsedConfig, ...this.config }, with the file's fields first
MergeFile_FileWins(cfg, doc) == Spread(doc) @@ cfg

\* this.config = { ...parsedConfig, ...this.config }: a field the
\* configuration has already keeps its value
MergeFile(cfg, doc) == cfg @@ Spread(doc)

\* A file of the file system: exists says what fs.existsSync answers, and
\* load is the completion of readFileSync followed by yaml.load.
RECURSIVE loadFromConfigFileFrom(_, _, _)
\* the loop of loadFromConfigFile over the candidates that are left: the
\* configuration and the warnings logged
loadFromConfigFileFrom(paths, fs, cfg) ==
    IF paths = <<>> THEN [config |-> cfg, warnings |-> <<>>, loaded |-> ""]
    ELSE LET file == fs[Head(paths)] IN
         IF ~file.exists THEN loadFromConfigFileFrom(Tail(paths), fs, cfg)
         ELSE IF file.load.ok
         THEN [config |-> MergeFile(cfg, file.load.value),
               warnings |-> <<>>, loaded |-> Head(paths)]
         ELSE LET rest == loadFromConfigFileFrom(Tail(paths), fs, cfg)
              IN [rest EXCEPT !.warnings =
                    <<"Failed to load configuration file: " \o Head(paths)>> \o @]

loadFromConfigFile(cfg, e, fs) ==
    loadFromConfigFileFrom(configPaths(e), fs, cfg)

\* z.string().url(): the text parses as a URL - a scheme of letters, then
\* a colon, then something
IsUrl(cs) ==
    \E i \in DOMAIN cs :
        /\ i > 1 /\ i < Len(cs) /\ cs[i] = ":"
        /\ \A j \in 1..(i - 1) : ~IsDigit(cs[j]) /\ cs[j] \notin {"/", " ", ":"}

\* LokiAuthConfigSchema accepts the configuration
LokiAuthConfigSchema(cfg) ==
    /\ \A i \in DOMAIN StringFields :
          Has(cfg, StringFields[i][1]) => cfg[StringFields[i][1]].t = "str"
    /\ Has(cfg, "addr") => IsUrl(cfg.addr.v)
    /\ Has(cfg, "tls_skip_verify") => cfg.tls_skip_verify.t = "bool"

\* this.config.FIELD is truthy
ConfigTruthy(cfg, field) == Has(cfg, field) /\ Truthy(cfg[field])

\* LokiAuthConfigSchema.parse(this.config): the value, or a ZodError thrown
SchemaParse(cfg) ==
    IF LokiAuthConfigSchema(cfg) THEN Return(cfg)
    ELSE Throw([name |-> "ZodError", message |-> "Invalid url"])

\* the warning for a configuration without addr
AddrWarning(cfg) ==
    IF ConfigTruthy(cfg, "addr") THEN <<>>
    ELSE <<"Loki server address (addr) is not configured">>

\* a validateConfig that lets the error of the schema through
validateConfig_Rethrows(cfg) ==
    IF SchemaParse(cfg).ok THEN Return(AddrWarning(cfg)) ELSE SchemaParse(cfg)

\* validateConfig(): its completion; it catches what the schema throws and
\* returns, and the value is the warnings it has logged
validateConfig(cfg) ==
    Return((IF SchemaParse(cfg).ok THEN <<>>
            ELSE <<"Loki configuration validation failed">>)
           \o AddrWarning(cfg))

RECURSIVE AuthArgsFrom(_, _)
\* the tokens of the string fields from the i-th on
AuthArgsFrom(cfg, i) ==
    IF i > Len(StringFields) THEN <<>>
    ELSE (IF ConfigTruthy(cfg, StringFields[i][1])
          THEN <<StringFields[i][3] \o Join(ToStringChars(cfg[StringFields[i][1]]))>>
          ELSE <<>>)
         \o AuthArgsFrom(cfg, i + 1)

\* the arguments with --tls-skip-verify in front
getAuthArgs_TlsFirst(cfg) ==
    (IF ConfigTruthy(cfg, "tls_skip_verify") THEN <<"--tls-skip-verify">>
     ELSE <<>>)
    \o AuthArgsFrom(cfg, 1)

\* getAuthArgs()
getAuthArgs(cfg) ==
    AuthArgsFrom(cfg, 1)
    \o (IF ConfigTruthy(cfg, "tls_skip_verify") THEN <<"--tls-skip-verify">>
        ELSE <<>>)

\* a getConfig that hands out the stored object
ReturnedObject_Stored == "this.config"

\* the object getConfig() returns: the rest object safeConfig that the
\* destructuring has created, and not this.config
ReturnedObject == "safeConfig"

\* a view that leaves out the password only
getConfig_PasswordOnly(cfg) == [k \in DOMAIN cfg \ {"password"} |-> cfg[k]]

\* getConfig(): the configuration without password and bearer_token
getConfig(cfg) == [k \in DOMAIN cfg \ {"password", "bearer_token"} |-> cfg[k]]

\* isConfigValid()
isConfigValid(cfg) == ConfigTruthy(cfg, "addr")

-----------------------------------------------------------------------------
(* errors.ts *)

\* JsonRpcErrorCode
InvalidParams == -32602

InternalError == -32603

ServerError == -32000

ConfigError == -32001

ExecutionError == -32003

TimeoutError == -32004

AuthError == -32002

\* ErrorCodeMapping[code] || fallback
JsonRpcCodeOf(code, fallback) ==
    CASE code \in {"query_execution_failed", "execution_failed",
                   "query_execution_failed_1", "query_execution_failed_127",
                   "execution_failed_1", "execution_failed_127"} -> ExecutionError
      [] code \in {"query_execution_failed_2", "execution_failed_2"} -> InvalidParams
      [] code \in {"query_execution_failed_130", "execution_failed_130"} -> TimeoutError
      [] code = "config_load_error" -> ConfigError
      [] OTHER -> fallback

\* new LokiClientError(code, message, { cause, details })
LokiClientError(code, message, details, cause) ==
    [name |-> "LokiClientError", code |-> code, message |-> message,
     details |-> details, cause |-> cause,
     jsonRpcCode |-> JsonRpcCodeOf(code, ServerError)]

\* new LokiAuthError(code, message, { cause, details })
LokiAuthError(code, message, details, cause) ==
    [name |-> "LokiAuthError", code |-> code, message |-> message,
     details |-> details, cause |-> cause,
     jsonRpcCode |-> JsonRpcCodeOf(code, AuthError)]

\* no cause given
NoCause == [name |-> "undefined"]

\* String(error) of an Error object
ErrorToString(e) ==
    IF e.message = "" THEN e.name ELSE e.name \o ": " \o e.message

\* createJsonRpcError
createJsonRpcError(code, message, data) ==
    [code |-> code, message |-> message, data |-> data]

\* LokiClientError.toJsonRpcError
toJsonRpcError(e) ==
    createJsonRpcError(e.jsonRpcCode, e.message,
                       e.details @@ ("originalCode" :> e.code))

\* { type: "text", text }
TextItem(text) == [type |-> "text", text |-> text]

\* an error response that says InternalError whatever was thrown
createToolErrorResponse_AlwaysInternal(error, contextMessage, contextData) ==
    [content |-> <<TextItem(contextMessage \o ": " \o error.message)>>,
     isError |-> TRUE,
     error |-> createJsonRpcError(InternalError, error.message, contextData)]

\* createToolErrorResponse(error, contextMessage, contextData); a thrown
\* value that is not an Error has String(error) as its message
createToolErrorResponse(error, contextMessage, contextData) ==
    LET jsonRpcError ==
            IF error.name \in {"LokiClientError", "LokiAuthError"}
            THEN toJsonRpcError(error)
            ELSE createJsonRpcError(InternalError, error.message, contextData)
    IN [content |-> <<TextItem(contextMessage \o ": " \o jsonRpcError.message)>>,
        isError |-> TRUE,
        error |-> jsonRpcError]

-----------------------------------------------------------------------------
(* LokiClient: the logcli backend *)

\* what execFilePromise rejects with: an Error with the exit code (a number,
\* a string such as ENOENT when the program cannot be started, null when a
\* signal ended it) and the text of stderr
ExecError(message, code, stderr) ==
    [name |-> "Error", message |-> message, code |-> code, stderr |-> stderr]

\* the argument list with the query string right after the sub-command
LogCliQueryArgs_QueryBeforeOptions(cfg, query, opts) ==
    LET fromIso == IF Has(opts, "from") THEN toISOString(opts.from)
                   ELSE Return(<<>>)
        toIso == IF Has(opts, "to") THEN toISOString(opts.to)
                 ELSE Return(<<>>)
    IN IF ~fromIso.ok THEN fromIso
       ELSE IF ~toIso.ok THEN toIso
       ELSE Return(getAuthArgs(cfg) \o buildGlobalArgs(opts)
                   \o <<"query", query>>
                   \o (IF Has(opts, "from")
                       THEN <<"--from=" \o Join(fromIso.value)>> ELSE <<>>)
                   \o (IF Has(opts, "to")
                       THEN <<"--to=" \o Join(toIso.value)>> ELSE <<>>)
                   \o LimitBatchForwardArgs(opts))

\* the argument list of queryLokiViaLogCli(query, options): the completion
\* of the statements before execFilePromise
LogCliQueryArgs(cfg, query, opts) ==
    LET fromIso == IF Has(opts, "from") THEN toISOString(opts.from)
                   ELSE Return(<<>>)
        toIso == IF Has(opts, "to") THEN toISOString(opts.to)
                 ELSE Return(<<>>)
    IN IF ~fromIso.ok THEN fromIso
       ELSE IF ~toIso.ok THEN toIso
       ELSE Return(getAuthArgs(cfg)
                   \o buildGlobalArgs(opts)
                   \o <<"query">>
                   \o (IF Has(opts, "from")
                       THEN <<"--from=" \o Join(fromIso.value)>> ELSE <<>>)
                   \o (IF Has(opts, "to")
                       THEN <<"--to=" \o Join(toIso.value)>> ELSE <<>>)
                   \o LimitBatchForwardArgs(opts)
                   \o <<query>>)

\* a catch block that throws what it caught
LogCliCatch_Rethrow(e, codePrefix, messagePrefix, details) == e

\* the catch blocks of the logcli methods: the LokiClientError thrown for
\* the error caught
LogCliCatch(e, codePrefix, messagePrefix, details) ==
    LET stderr == IF Has(e, "stderr") THEN e.stderr ELSE ""
        code == IF Has(e, "code") THEN e.code ELSE JUndefined
        errorMsg == IF stderr # "" THEN stderr
                    ELSE IF e.message # "" THEN e.message
                    ELSE ErrorToString(e)
        errorCode == IF Truthy(code)
                     THEN codePrefix \o "_" \o Join(ToStringChars(code))
                     ELSE codePrefix
    IN LokiClientError(errorCode, messagePrefix \o errorMsg,
                       details @@ [exitCode |-> code, stderr |-> stderr], e)

\* a catch block that keeps the text of the failure and nothing else
queryLokiViaLogCli_catch_MessageOnly(e, query, opts) ==
    LokiClientError("query_execution_failed",
                    "LogCLI query error: " \o e.message, EmptyObject, NoCause)

\* the catch block of queryLokiViaLogCli
queryLokiViaLogCli_catch(e, query, opts) ==
    LogCliCatch(e, "query_execution_failed", "LogCLI query error: ",
                [query |-> query, options |-> opts])

\* the argument list of getLabelsViaLogCli()
LogCliLabelsArgs(cfg) == getAuthArgs(cfg) \o <<"labels">>

\* the catch block of getLabelsViaLogCli
getLabelsViaLogCli_catch(e) ==
    LogCliCatch(e, "execution_failed", "LogCLI error: ", [command |-> "labels"])

\* the argument list of getLabelValuesViaLogCli(labelName)
LogCliLabelValuesArgs(cfg, labelName) ==
    getAuthArgs(cfg) \o <<"labels", Join(labelName)>>

\* the catch block of getLabelValuesViaLogCli
getLabelValuesViaLogCli_catch(e, labelName) ==
    LogCliCatch(e, "execution_failed", "LogCLI error: ",
                [command |-> "labels", labelName |-> labelName])

\* String.prototype.split("\n"): the pieces between line breaks, the last
\* one included even when it is empty
SplitOnLineBreaks(cs) ==
    LET breaks == {i \in DOMAIN cs : cs[i] = "\n"}
        Break(k) == IF k = 0 THEN 0
                    ELSE IF k > Cardinality(breaks) THEN Len(cs) + 1
                    ELSE CHOOSE p \in breaks :
                            Cardinality({q \in breaks : q < p}) = k - 1
    IN [k \in 1..(Cardinality(breaks) + 1) |->
            SubSeq(cs, Break(k - 1) + 1, Break(k) - 1)]

IsWhiteSpace(c) == c \in {" ", "\t", "\n", "\r"}

\* String.prototype.trim
Trim(cs) ==
    LET kept == {i \in DOMAIN cs : ~IsWhiteSpace(cs[i])}
    IN IF kept = {} THEN <<>>
       ELSE SubSeq(cs, CHOOSE i \in kept : \A j \in kept : i <= j,
                       CHOOSE i \in kept : \A j \in kept : i >= j)

RECURSIVE NonEmpty(_)
\* filter((line) => line !== "")
NonEmpty(lines) ==
    IF lines = <<>> THEN <<>>
    ELSE IF Head(lines) = <<>> THEN NonEmpty(Tail(lines))
    ELSE <<Head(lines)>> \o NonEmpty(Tail(lines))

\* the list the logcli label methods make of stdout
ParseLabelLines(stdout) ==
    LET lines == SplitOnLineBreaks(stdout)
    IN NonEmpty([i \in DOMAIN lines |-> Trim(lines[i])])

-----------------------------------------------------------------------------
(* LokiClient: the HTTP backend *)

\* the printable ASCII characters, from code 32 on (a TLA+ string cannot
\* hold the grave accent, code 96: its place is kept by a name)
Ascii ==
    <<" ", "!", "\"", "#", "$", "%", "&", "'", "(", ")", "*", "+", ",", "-",
      ".", "/", "0", "1", "2", "3", "4", "5", "6", "7", "8", "9", ":", ";",
      "<", "=", ">", "?", "@", "A", "B", "C", "D", "E", "F", "G", "H", "I",
      "J", "K", "L", "M", "N", "O", "P", "Q", "R", "S", "T", "U", "V", "W",
      "X", "Y", "Z", "[", "\\", "]", "^", "_", "(grave)", "a", "b", "c", "d", "e",
      "f", "g", "h", "i", "j", "k", "l", "m", "n", "o", "p", "q", "r", "s",
      "t", "u", "v", "w", "x", "y", "z", "{", "|", "}", "~">>

\* the UTF-8 byte of an ASCII character
CharCode(c) == 31 + (CHOOSE i \in DOMAIN Ascii : Ascii[i] = c)

Base64Alphabet ==
    <<"A", "B", "C", "D", "E", "F", "G", "H", "I", "J", "K", "L", "M", "N",
      "O", "P", "Q", "R", "S", "T", "U", "V", "W", "X", "Y", "Z", "a", "b",
      "c", "d", "e", "f", "g", "h", "i", "j", "k", "l", "m", "n", "o", "p",
      "q", "r", "s", "t", "u", "v", "w", "x", "y", "z", "0", "1", "2", "3",
      "4", "5", "6", "7", "8", "9", "+", "/">>

RECURSIVE Base64OfBytes(_)
Base64OfBytes(bytes) ==
    IF bytes = <<>> THEN <<>>
    ELSE LET n == Len(bytes)
             b2 == IF n >= 2 THEN bytes[2] ELSE 0
             b3 == IF n >= 3 THEN bytes[3] ELSE 0
             q == bytes[1] * 65536 + b2 * 256 + b3
         IN <<Base64Alphabet[(q \div 262144) + 1],
              Base64Alphabet[((q \div 4096) % 64) + 1],
              IF n >= 2 THEN Base64Alphabet[((q \div 64) % 64) + 1] ELSE "=",
              IF n >= 3 THEN Base64Alphabet[(q % 64) + 1] ELSE "=">>
            \o Base64OfBytes(SubSeq(bytes, 4, n))

\* Buffer.from(text).toString("base64")
Base64(cs) == Base64OfBytes([i \in DOMAIN cs |-> CharCode(cs[i])])

HexDigits ==
    <<"0", "1", "2", "3", "4", "5", "6", "7", "8", "9",
      "A", "B", "C", "D", "E", "F">>

\* the characters encodeURIComponent leaves alone
IsUriUnreserved(c) ==
    LET code == CharCode(c)
    IN \/ (code >= 48 /\ code <= 57) \/ (code >= 65 /\ code <= 90)
       \/ (code >= 97 /\ code <= 122)
       \/ c \in {"-", "_", ".", "!", "~", "*", "'", "(", ")"}

\* encodeURIComponent of an ASCII text
encodeURIComponent(cs) ==
    Flatten([i \in DOMAIN cs |->
                IF IsUriUnreserved(cs[i]) THEN <<cs[i]>>
                ELSE <<"%", HexDigits[(CharCode(cs[i]) \div 16) + 1],
                       HexDigits[(CharCode(cs[i]) % 16) + 1]>>])

\* what axios.get rejects with; response is undefined (present = FALSE)
\* when no answer came
AxiosError(message, response) ==
    [name |-> "AxiosError", message |-> message, response |-> response]

NoResponse == [present |-> FALSE, status |-> 0, statusText |-> "", data |-> JUndefined]

Response(status, statusText, data) ==
    [present |-> TRUE, status |-> status, statusText |-> statusText, data |-> data]

\* axios.get for an answer of the server: resolves for a 2xx status (the
\* default validateStatus), else rejects with the answer attached
AxiosSettle(response) ==
    IF response.status >= 200 /\ response.status < 300
    THEN Return(response)
    ELSE Throw(AxiosError("Request failed with status code "
                            \o Join(NatToChars(response.status)), response))

\* the authentication and tenant headers the three HTTP methods build from
\* the configuration they are given
HttpHeaders(conf) ==
    (IF ConfigTruthy(conf, "username") /\ ConfigTruthy(conf, "password")
     THEN "Authorization" :>
            ("Basic " \o Join(Base64(ToStringChars(conf.username) \o <<":">>
                                     \o ToStringChars(conf.password))))
     ELSE IF ConfigTruthy(conf, "bearer_token")
     THEN "Authorization" :>
            ("Bearer " \o Join(ToStringChars(conf.bearer_token)))
     ELSE EmptyObject)
    @@ (IF ConfigTruthy(conf, "tenant_id")
        THEN "X-Scope-OrgID" :> Join(ToStringChars(conf.tenant_id))
        ELSE EmptyObject)
    @@ (IF ConfigTruthy(conf, "org_id")
        THEN "X-Org-ID" :> Join(ToStringChars(conf.org_id))
        ELSE EmptyObject)

\* ...(config.tls_skip_verify ? { httpsAgent: ... } : {})
HttpsAgent(conf) ==
    IF ConfigTruthy(conf, "tls_skip_verify")
    THEN "httpsAgent" :> [rejectUnauthorized |-> FALSE]
    ELSE EmptyObject

AddrNotConfigured(details) ==
    LokiClientError("http_query_error",
                    "Loki server address (addr) is not configured",
                    details, NoCause)

\* the request of queryLokiViaHttp(query, options): the completion of the
\* statements before axios.get
HttpQueryRequest(cfg, query, opts) ==
    LET conf == getConfig(cfg)
        fromIso == IF Has(opts, "from") THEN toISOString(opts.from)
                   ELSE Return(<<>>)
        toIso == IF Has(opts, "to") THEN toISOString(opts.to)
                 ELSE Return(<<>>)
    IN IF ~ConfigTruthy(conf, "addr")
       THEN Throw(AddrNotConfigured([query |-> query, options |-> opts]))
       ELSE IF ~fromIso.ok THEN fromIso
       ELSE IF ~toIso.ok THEN toIso
       ELSE Return(
            [url |-> Join(ToStringChars(conf.addr)) \o "/loki/api/v1/query_range",
             params |->
                ("query" :> query)
                @@ (IF Has(opts, "from") THEN "start" :> Join(fromIso.value)
                    ELSE EmptyObject)
                @@ (IF Has(opts, "to") THEN "end" :> Join(toIso.value)
                    ELSE EmptyObject)
                @@ (IF Has(opts, "limit") /\ TruthyNumber(opts.limit)
                    THEN "limit" :> Join(NumToChars(opts.limit))
                    ELSE EmptyObject)
                @@ (IF Has(opts, "forward")
                    THEN "direction" :> (IF opts.forward THEN "forward"
                                         ELSE "backward")
                    ELSE EmptyObject),
             headers |->
                HttpHeaders(conf)
                @@ (IF Has(opts, "output") /\ opts.output \in {"raw", "jsonl"}
                    THEN "Accept" :> "application/json" ELSE EmptyObject)]
            @@ HttpsAgent(conf))

\* a catch block that leaves the answer's status out of the details
HttpCatch_NoStatus(e, what, details) ==
    LokiClientError("http_query_error", what \o ": " \o e.message, details, e)

\* the catch blocks of the HTTP methods: the LokiClientError thrown for the
\* error caught (every error of the model is an Error object)
HttpCatch(e, what, details) ==
    IF e.name = "AxiosError"
    THEN LokiClientError("http_query_error", what \o ": " \o e.message,
            details @@
            [status |-> IF e.response.present THEN JNum(e.response.status)
                        ELSE JUndefined,
             statusText |-> IF e.response.present THEN e.response.statusText
                            ELSE "",
             responseData |-> e.response.data], e)
    ELSE LokiClientError("http_query_error", what \o ": " \o e.message,
                         details, e)

\* the error of an HTTP query wrapped as the catch block of queryLoki
\* wraps what is not a LokiClientError
queryLokiViaHttp_catch_AsQueryLoki(e, query, opts) ==
    LokiClientError("query_execution_failed", "Loki query error: " \o e.message,
                    [query |-> query, options |-> opts], e)

\* the catch block of queryLokiViaHttp
queryLokiViaHttp_catch(e, query, opts) ==
    HttpCatch(e, "HTTP query failed", [query |-> query, options |-> opts])

\* the request of getLabelsViaHttp()
HttpLabelsRequest(cfg) ==
    LET conf == getConfig(cfg)
    IN IF ~ConfigTruthy(conf, "addr")
       THEN Throw(AddrNotConfigured([command |-> "labels"]))
       ELSE Return([url |-> Join(ToStringChars(conf.addr)) \o "/loki/api/v1/labels",
                    headers |-> HttpHeaders(conf)]
                   @@ HttpsAgent(conf))

\* the catch block of getLabelsViaHttp
getLabelsViaHttp_catch(e) ==
    HttpCatch(e, "HTTP labels query failed", [command |-> "labels"])

\* the request of a getLabelValuesViaHttp that does not look at addr
HttpLabelValuesRequest_NoAddrCheck(cfg, labelName) ==
    LET conf == getConfig(cfg)
    IN Return([url |-> (IF Has(conf, "addr") THEN Join(ToStringChars(conf.addr))
                        ELSE "undefined")
                       \o "/loki/api/v1/label/"
                       \o Join(encodeURIComponent(labelName)) \o "/values",
               headers |-> HttpHeaders(conf)]
              @@ HttpsAgent(conf))

\* the request of getLabelValuesViaHttp(labelName)
HttpLabelValuesRequest(cfg, labelName) ==
    LET conf == getConfig(cfg)
    IN IF ~ConfigTruthy(conf, "addr")
       THEN Throw(AddrNotConfigured([command |-> "label values",
                                     labelName |-> labelName]))
       ELSE Return([url |-> Join(ToStringChars(conf.addr))
                            \o "/loki/api/v1/label/"
                            \o Join(encodeURIComponent(labelName)) \o "/values",
                    headers |-> HttpHeaders(conf)]
                   @@ HttpsAgent(conf))

\* the catch block of getLabelValuesViaHttp
getLabelValuesViaHttp_catch(e, labelName) ==
    HttpCatch(e, "HTTP label values query failed",
              [command |-> "label values", labelName |-> labelName])

\* what the label methods return for a 2xx answer: response.data.data when
\* it is an array, else []
LabelsOfResponse(data) ==
    IF Truthy(data) /\ Truthy(Get(data, K_data)) /\ Get(data, K_data).t = "arr"
    THEN Get(data, K_data).v
    ELSE <<>>

-----------------------------------------------------------------------------
(* index.ts: the tools *)

\* new Date(text) of a text in the form toISOString gives, for the months
\* of the model's calendar (December 1969, January 1970); an Invalid Date
\* for a text that is not in that form
DateParse(cs) ==
    IF /\ Len(cs) = 24
       /\ cs[5] = "-" /\ cs[8] = "-" /\ cs[11] = "T" /\ cs[14] = ":"
       /\ cs[17] = ":" /\ cs[20] = "." /\ cs[24] = "Z"
       /\ \A i \in (1..23) \ {5, 8, 11, 14, 17, 20} : IsDigit(cs[i])
    THEN LET year == DigitsValue(SubSeq(cs, 1, 4))
             month == DigitsValue(SubSeq(cs, 6, 7))
             day == DigitsValue(SubSeq(cs, 9, 10))
             hour == DigitsValue(SubSeq(cs, 12, 13))
             minute == DigitsValue(SubSeq(cs, 15, 16))
             second == DigitsValue(SubSeq(cs, 18, 19))
             milli == DigitsValue(SubSeq(cs, 21, 23))
             inDay == hour * MsPerHour + minute * MsPerMinute
                      + second * MsPerSecond + milli
         IN IF day < 1 \/ day > 31 \/ hour > 23 \/ minute > 59 \/ second > 59
            THEN InvalidDate
            ELSE IF year = 1970 /\ month = 1
            THEN ValidDate((day - 1) * MsPerDay + inDay)
            ELSE IF year = 1969 /\ month = 12
            THEN ValidDate((day - 32) * MsPerDay + inDay)
            ELSE InvalidDate
    ELSE InvalidDate

\* the schema of a tool accepts the arguments (the server validates them
\* before it calls the handler); the types of the named arguments are
\* those of the model, so what is left is: the required ones are there and
\* output is one of the enum's values.  limit is z.number().optional().
ToolSchemaAccepts(tool, args) ==
    CASE tool = "query-loki" ->
            /\ Has(args, "query")
            /\ Has(args, "output") => args.output \in {"default", "raw", "jsonl"}
      [] tool = "get-label-values" -> Has(args, "label")
      [] OTHER -> TRUE

\* the answer to a call whose arguments the schema refuses
InvalidArguments(tool) ==
    [content |-> <<TextItem("Invalid arguments for tool " \o tool)>>,
     isError |-> TRUE,
     error |-> createJsonRpcError(InvalidParams,
                                  "Invalid arguments for tool " \o tool,
                                  EmptyObject)]

\* the options the query-loki handler hands to queryLoki:
\* { ...restOptions, ...(from ? { from: new Date(from) } : {}), ...(to ...) }
HandlerOptions(args) ==
    (IF Has(args, "from") /\ args.from # <<>>
     THEN "from" :> DateParse(args.from) ELSE EmptyObject)
    @@ (IF Has(args, "to") /\ args.to # <<>>
        THEN "to" :> DateParse(args.to) ELSE EmptyObject)
    @@ [k \in DOMAIN args \ {"query", "from", "to"} |-> args[k]]

\* the parameters of the LokiClient method a handler calls
HandlerParams(tool, args) ==
    CASE tool = "query-loki" ->
            [query |-> args.query, options |-> HandlerOptions(args)]
      [] tool = "get-label-values" -> [labelName |-> args.label]
      [] OTHER -> EmptyObject

\* what a handler answers when its LokiClient call has settled
HandlerResponse(tool, args, result) ==
    IF result.ok
    THEN [content |->
            <<TextItem(IF tool = "query-loki" THEN result.value
                       ELSE JoinWith([i \in DOMAIN result.value.v |->
                                        IF Nullish(result.value.v[i]) THEN <<>>
                                        ELSE ToStringChars(result.value.v[i])],
                                     NL))>>]
    ELSE CASE tool = "query-loki" ->
                createToolErrorResponse(result.error, "Error running Loki query",
                    [query |-> args.query,
                     options |-> [k \in DOMAIN args \ {"query"} |-> args[k]]])
           [] tool = "get-label-values" ->
                createToolErrorResponse(result.error, "Error getting label values",
                                        [label |-> args.label])
           [] OTHER ->
                createToolErrorResponse(result.error, "Error getting labels",
                                        EmptyObject)

-----------------------------------------------------------------------------
(* The option values offered to the builder *)

\* valid instants: 1970-01-01T01:00:00.000Z and later, one hour apart plus
\* an odd number of milliseconds so that every field of the ISO form varies
Instant(i) == i * MsPerHour + (i - 1) * 61001

Dates == {ValidDate(Instant(i)) : i \in 1..MaxDates} \cup {InvalidDate}

Maybe(key, values) == {EmptyObject} \cup {(key :> v) : v \in values}

Limits == {0, 100, 5000, 5001}

Batches == {0, 50}

Outputs == {"default", "raw", "jsonl"}

AllOptions ==
    {f @@ t @@ l @@ b @@ q @@ w @@ o :
        f \in Maybe("from", Dates), t \in Maybe("to", Dates),
        l \in Maybe("limit", Limits), b \in Maybe("batch", Batches),
        q \in Maybe("quiet", BOOLEAN), w \in Maybe("forward", BOOLEAN),
        o \in Maybe("output", Outputs)}

\* Date.now(): early in 1970-01-01 (an hour before is in 1969) and later
Nows == {1234, MsPerHour, 5 * MsPerHour + 7}

-----------------------------------------------------------------------------
(* The response bodies offered to the formatter *)

Text_a == <<"a", ";", "b">>

Text_b == <<"x", "\n", "y">>

Text_c == <<"s", "a", "y", " ", "\"", "h", "i", "\"">>

\* nanosecond timestamps, as Loki sends them: decimal strings
Ns_a == <<"1", "5", "0", "0", "0", "0", "0", "0", "0", "0">>

Ns_b == <<"2", "0", "0", "0", "0", "0", "0", "0", "0", "1">>

Ns_c == <<"9", "9", "9", "9", "9", "9">>

PairList ==
    << JArr(<<JStr(Ns_a), JStr(Text_a)>>),
       JArr(<<JStr(Ns_b), JStr(Text_b)>>),
       JArr(<<JStr(Ns_c), JStr(Text_c)>>) >>

\* n consecutive elements of list, cyclically, from index start
Cycle(list, start, n) ==
    [i \in 1..n |-> list[((start + i - 2) % Len(list)) + 1]]

CyclesOf(list, most) ==
    {Cycle(list, start, n) : start \in DOMAIN list, n \in 0..most}

LabelSets ==
    { JObj(<< <<<<"a", "p", "p">>, JStr(<<"x">>)>> >>),
      JObj(<< <<<<"j", "o", "b">>, JStr(<<"a", " ", "b">>)>>,
              <<<<"a", "p", "p">>, JStr(<<"x">>)>> >>) }

StreamEntries ==
    { JObj(<< <<K_stream, l>>, <<K_values, JArr(vs)>> >>) :
        l \in LabelSets, vs \in CyclesOf(PairList, MaxValues) }

\* [seconds, value] samples of a metric
SampleList ==
    << JArr(<<JNum(3601), JStr(<<"5">>)>>),
       JArr(<<JNum(7262), JStr(<<"0", ".", "5">>)>>) >>

\* the label sets of metrics: one of two labels, and one with a label
\* taken out of the log line, which may hold any text
MetricLabelSets ==
    { JObj(<< <<<<"j", "o", "b">>, JStr(<<"a", " ", "b">>)>>,
              <<<<"a", "p", "p">>, JStr(<<"x">>)>> >>),
      JObj(<< <<<<"m", "s", "g">>, JStr(Text_b)>> >>) }

VectorEntries ==
    { JObj(<< <<K_metric, l>>, <<K_value, v>> >>) :
        l \in MetricLabelSets, v \in {SampleList[i] : i \in DOMAIN SampleList} }

\* series of the first n samples
MatrixEntries ==
    { JObj(<< <<K_metric, l>>, <<K_values, JArr(vs)>> >>) :
        l \in MetricLabelSets,
        vs \in {Cycle(SampleList, 1, n) : n \in 0..MaxValues} }

\* entries that do not have the shape their result type promises
MalformedEntries ==
    { JObj(<< <<K_stream, JObj(<<>>)>> >>),
      JObj(<< <<K_stream, JObj(<<>>)>>,
              <<K_values, JArr(<<JArr(<<JStr(<<"s", "o", "o", "n">>),
                                        JStr(Text_a)>>)>>)>> >>),
      JNull }

SeqsUpTo(S, most) == UNION {[1..n -> S] : n \in 0..most}

Envelope(resultType, result) ==
    JObj(<< <<K_status, JStr(<<"s", "u", "c", "c", "e", "s", "s">>)>>,
            <<K_data, JObj(<< <<K_resultType, JStr(resultType)>>,
                              <<K_result, result>> >>)>> >>)

ResultTypes == {T_streams, T_vector, T_matrix, <<"s", "c", "a", "l", "a", "r">>}

\* the bodies with results of at most this many entries
ResponseBodies(most) ==
    {Envelope(T_streams, JArr(r)) : r \in SeqsUpTo(StreamEntries, most)}
    \cup {Envelope(T_vector, JArr(r)) : r \in SeqsUpTo(VectorEntries, most)}
    \cup {Envelope(T_matrix, JArr(r)) : r \in SeqsUpTo(MatrixEntries, most)}
    \cup {Envelope(ty, JArr(<<e>>)) : ty \in ResultTypes, e \in MalformedEntries}
    \cup {Envelope(ty, r) : ty \in ResultTypes,
                            r \in {JArr(<<>>), JNull, JObj(<<>>), JStr(<<>>)}}
    \cup {JObj(<< <<K_status, JStr(<<"s", "u", "c", "c", "e", "s", "s">>)>>,
                  <<K_data, JObj(<< <<K_resultType, JStr(T_streams)>> >>)>> >>),
          JObj(<<>>), JStr(<<>>), JNull}

FormatOptions ==
    {q @@ o : q \in Maybe("quiet", BOOLEAN), o \in Maybe("output", Outputs)}

-----------------------------------------------------------------------------
(* index.ts: the process *)

\* a value that was thrown or rejected with: an Error object, or another
\* value with message = String(value)
ErrorObject(name, message) == [isError |-> TRUE, name |-> name, message |-> message]

OtherValue(string) == [isError |-> FALSE, name |-> "", message |-> string]

\* handleServerError: the line it writes with console.error; it has no
\* statement that throws or that ends the process
handleServerError(errorType, error) ==
    LET jsonRpcError ==
            createJsonRpcError(ServerError, error.message,
                               [name |-> IF error.isError THEN error.name
                                         ELSE "undefined",
                                errorType |-> errorType])
    IN Return(errorType \o " error: " \o jsonRpcError.message)

\* a server that listens for uncaught exceptions only
ProcessListeners_ExceptionsOnly == {"uncaughtException"}

\* the events of process that index.ts registers a listener for
ProcessListeners == {"uncaughtException", "unhandledRejection"}

\* the listener of the event, applied to what was thrown or rejected with
ProcessListener(event, thrown) ==
    IF event = "uncaughtException"
    THEN handleServerError("transport", thrown)
    ELSE handleServerError("transport",
                           IF thrown.isError THEN thrown
                           ELSE ErrorObject("Error", thrown.message))

\* the process after start-up: the listeners are registered, the server
\* is connected
Started == [running |-> TRUE, handled |-> 0, stderr |-> ""]

\* Node emits the event on process: without a listener for it, or when
\* the listener throws, the process exits; otherwise the listener has run
\* and the process goes on
EmitOnProcess(proc, event, thrown) ==
    IF event \notin ProcessListeners
    THEN [proc EXCEPT !.running = FALSE]
    ELSE LET listened == ProcessListener(event, thrown)
         IN IF listened.ok
            THEN [proc EXCEPT !.handled = @ + 1, !.stderr = listened.value]
            ELSE [proc EXCEPT !.running = FALSE]

-----------------------------------------------------------------------------
(* Specifications of the pure parts: one call on any input *)

NotCalled == [ok |-> TRUE, value |-> <<>>]

BuilderOff ==
    /\ options = EmptyObject
    /\ now = 0
    /\ built = NotCalled
    /\ builderPc = "off"

FormatterOff ==
    /\ responseData = JNull
    /\ fmtOptions = EmptyObject
    /\ formatted = NotCalled
    /\ fmtPc = "off"

\* no LokiAuth is being constructed
AuthOff ==
    /\ env = EmptyObject
    /\ files = EmptyObject
    /\ config = EmptyObject
    /\ authLog = <<>>
    /\ authPc = "off"
    /\ safeConfig = EmptyObject
    /\ authReturned = NotCalled

\* a call number that no tool call has taken yet
IdleCall ==
    [tool |-> "none", args |-> EmptyObject, pc |-> "idle", invoked |-> FALSE,
     after |-> 0, probed |-> FALSE, available |-> JNull,
     params |-> EmptyObject, argv |-> <<>>, request |-> EmptyObject,
     started |-> 0, outcome |-> EmptyObject, result |-> NotCalled,
     response |-> EmptyObject]

\* no LokiClient
ClientOff ==
    /\ process = Started
    /\ hasLogCli = JNull
    /\ calls = [id \in 1..MaxCalls |-> IdleCall]

BuilderInit ==
    /\ options \in AllOptions
    /\ now \in Nows
    /\ built = NotCalled
    /\ builderPc = "ready"
    /\ FormatterOff /\ AuthOff /\ ClientOff

CallBuildQuerySpecificArgs ==
    /\ builderPc = "ready"
    /\ built' = buildQuerySpecificArgs(options, now)
    /\ builderPc' = "done"
    /\ UNCHANGED <<options, now>>
    /\ UNCHANGED <<formatterVars, authVars, clientVars>>

CallBuildGlobalArgs ==
    /\ builderPc = "ready"
    /\ built' = Return(buildGlobalArgs(options))
    /\ builderPc' = "global"
    /\ UNCHANGED <<options, now>>
    /\ UNCHANGED <<formatterVars, authVars, clientVars>>

BuilderNext == CallBuildQuerySpecificArgs \/ CallBuildGlobalArgs

SpecBuilder == BuilderInit /\ [][BuilderNext]_vars

FormatterInit ==
    /\ responseData \in ResponseBodies(MaxStreams)
    /\ fmtOptions \in FormatOptions
    /\ formatted = NotCalled
    /\ fmtPc = "ready"
    /\ BuilderOff /\ AuthOff /\ ClientOff

CallFormatHttpResponse ==
    /\ fmtPc = "ready"
    /\ formatted' = formatHttpResponse(responseData, fmtOptions)
    /\ fmtPc' = "done"
    /\ UNCHANGED <<responseData, fmtOptions>>
    /\ UNCHANGED <<builderVars, authVars, clientVars>>

FormatterNext == CallFormatHttpResponse

SpecFormatter == FormatterInit /\ [][FormatterNext]_vars

-----------------------------------------------------------------------------
(* LokiAuth: the constructor, one method call per step *)

\* the environments offered: a variable is unset, empty or has a value
EnvChoices(name, texts) == Maybe(name, {Chars(t) : t \in texts})

AuthEnvs ==
    {a @@ u @@ p @@ t @@ c :
        a \in EnvChoices("LOKI_ADDR", {"", "http://e"}),
        u \in EnvChoices("LOKI_USERNAME", {"ue"}),
        p \in EnvChoices("LOKI_PASSWORD", {"p w"}),
        t \in EnvChoices("LOKI_TLS_SKIP_VERIFY", {"true", "yes"}),
        c \in EnvChoices("LOKI_CONFIG_PATH", {"", "loki"})}

Missing == [exists |-> FALSE, load |-> Throw([name |-> "Error", message |-> "ENOENT"])]

\* exists, but readFileSync or yaml.load throws
Unloadable == [exists |-> TRUE, load |-> Throw([name |-> "YAMLException", message |-> "bad indentation"])]

Parsed(doc) == [exists |-> TRUE, load |-> Return(doc)]

K_addr == <<"a", "d", "d", "r">>

K_username == <<"u", "s", "e", "r", "n", "a", "m", "e">>

K_tenant_id == <<"t", "e", "n", "a", "n", "t", "_", "i", "d">>

K_tls_skip_verify ==
    <<"t", "l", "s", "_", "s", "k", "i", "p", "_", "v", "e", "r", "i", "f", "y">>

K_bearer_token ==
    <<"b", "e", "a", "r", "e", "r", "_", "t", "o", "k", "e", "n">>

K_org_id == <<"o", "r", "g", "_", "i", "d">>

K_ca_file == <<"c", "a", "_", "f", "i", "l", "e">>

\* the documents a file may hold; addr and user tell the files apart; the
\* second one has an empty user name and its fields in another order than
\* getAuthArgs goes through them
Documents(addr, user) ==
    { JObj(<< <<K_addr, JStr(Chars(addr))>>, <<K_username, JStr(Chars(user))>> >>),
      JObj(<< <<K_org_id, JStr(<<"o", "1">>)>>, <<K_ca_file, JStr(<<"/", "c">>)>>,
              <<K_addr, JStr(Chars("loki"))>>, <<K_tls_skip_verify, JBool(TRUE)>>,
              <<K_tenant_id, JStr(Chars("t1"))>>,
              <<K_bearer_token, JStr(Chars("tk"))>>,
              <<K_username, JStr(<<>>)>> >>),
      JNull }

FileStates(addr, user) ==
    {Missing, Unloadable} \cup {Parsed(d) : d \in Documents(addr, user)}

FileSystems ==
    {(CustomPath :> c) @@ (CwdPath :> w) @@ (HomePath :> h) :
        c \in FileStates("http://f", "uf"),
        w \in FileStates("http://g", "ug"),
        h \in FileStates("http://h", "uh")}

AuthInit ==
    /\ env \in AuthEnvs
    /\ files \in FileSystems
    /\ config = EmptyObject
    /\ authLog = <<>>
    /\ authPc = "new"
    /\ safeConfig = EmptyObject
    /\ authReturned = NotCalled
    /\ BuilderOff /\ FormatterOff /\ ClientOff

\* this.loadFromEnv()
LoadFromEnv ==
    /\ authPc = "new"
    /\ config' = loadFromEnv(config, env)
    /\ authPc' = "env"
    /\ UNCHANGED <<env, files, authLog, safeConfig, authReturned>>
    /\ UNCHANGED <<builderVars, formatterVars, clientVars>>

\* this.loadFromConfigFile()
LoadFromConfigFile ==
    /\ authPc = "env"
    /\ LET loaded == loadFromConfigFile(config, env, files)
       IN /\ config' = loaded.config
          /\ authLog' = authLog \o loaded.warnings
    /\ authPc' = "file"
    /\ UNCHANGED <<env, files, safeConfig, authReturned>>
    /\ UNCHANGED <<builderVars, formatterVars, clientVars>>

\* this.validateConfig(), and the catch block of the constructor: when the
\* call throws, the constructor logs and throws a LokiAuthError
ValidateConfig ==
    /\ authPc = "file"
    /\ LET validated == validateConfig(config)
       IN IF validated.ok
          THEN /\ authLog' = authLog \o validated.value
               /\ authPc' = "done"
          ELSE /\ authLog' = authLog
                             \o <<"Error loading authentication configuration">>
               /\ authPc' = "threw"
    /\ UNCHANGED <<env, files, config, safeConfig, authReturned>>
    /\ UNCHANGED <<builderVars, formatterVars, clientVars>>

\* getConfig() on the constructed LokiAuth
GetConfig ==
    /\ authPc = "done"
    /\ safeConfig' = getConfig(config)
    /\ authPc' = "read"
    /\ UNCHANGED <<env, files, config, authLog, authReturned>>
    /\ UNCHANGED <<builderVars, formatterVars, clientVars>>

\* the value a caller writes into a field of the view it was given
ViewWrite(field) == IF field = "addr" THEN JStr(<<"x">>) ELSE JBool(FALSE)

\* the caller of getConfig() assigns to a field of the object it was
\* given: the stored configuration changes with it only when that object
\* is this.config itself
ChangeView ==
    /\ authPc = "read"
    /\ \E field \in {"addr", "tls_skip_verify"} :
          /\ safeConfig' = (field :> ViewWrite(field)) @@ safeConfig
          /\ config' = IF ReturnedObject = "this.config"
                       THEN (field :> ViewWrite(field)) @@ config
                       ELSE config
    /\ authPc' = "changed"
    /\ UNCHANGED <<env, files, authLog, authReturned>>
    /\ UNCHANGED <<builderVars, formatterVars, clientVars>>

\* getAuthArgs() on the constructed LokiAuth
GetAuthArgs ==
    /\ authPc = "done"
    /\ authReturned' = Return(getAuthArgs(config))
    /\ authPc' = "args"
    /\ UNCHANGED <<env, files, config, authLog, safeConfig>>
    /\ UNCHANGED <<builderVars, formatterVars, clientVars>>

\* isConfigValid() on the constructed LokiAuth
IsConfigValid ==
    /\ authPc = "done"
    /\ authReturned' = Return(isConfigValid(config))
    /\ authPc' = "valid"
    /\ UNCHANGED <<env, files, config, authLog, safeConfig>>
    /\ UNCHANGED <<builderVars, formatterVars, clientVars>>

AuthNext ==
    \/ LoadFromEnv
    \/ LoadFromConfigFile
    \/ ValidateConfig
    \/ GetConfig
    \/ ChangeView
    \/ GetAuthArgs
    \/ IsConfigValid

SpecAuth == AuthInit /\ [][AuthNext]_vars

\* new LokiAuth() as a whole
Constructed(e, fs) ==
    LET fromEnv == loadFromEnv(EmptyObject, e)
        loaded == loadFromConfigFile(fromEnv, e, fs)
    IN [config |-> loaded.config,
        log |-> loaded.warnings \o validateConfig(loaded.config).value]

-----------------------------------------------------------------------------
(* LokiClient and the tools: what is offered *)

\* the environments the server is started in: nothing set; an address;
\* an address with credentials and a tenant
ClientEnvs ==
    { EmptyObject,
      "LOKI_ADDR" :> Chars("http://e"),
      ("LOKI_ADDR" :> Chars("http://e")) @@ ("LOKI_USERNAME" :> Chars("ue"))
        @@ ("LOKI_PASSWORD" :> Chars("p w")) @@ ("LOKI_TENANT_ID" :> Chars("t1"))
        @@ ("LOKI_TLS_SKIP_VERIFY" :> Chars("true")) }

NoFiles == (CustomPath :> Missing) @@ (CwdPath :> Missing) @@ (HomePath :> Missing)

Iso_1 == toISOString(ValidDate(Instant(1))).value

Iso_2 == toISOString(ValidDate(Instant(2))).value

\* the arguments of query-loki besides the query
QueryLokiOptions ==
    { EmptyObject,
      [from |-> Iso_1, to |-> Iso_2, limit |-> 100, quiet |-> TRUE,
       output |-> "raw", forward |-> TRUE],
      [limit |-> 6000],
      [from |-> <<"y", "e", "s", "t", "e", "r", "d", "a", "y">>],
      [output |-> "json"],
      [to |-> Iso_2, limit |-> 5000, batch |-> 50, output |-> "jsonl",
       forward |-> FALSE] }

\* the options that go with the first query: none, all of them, a limit
\* alone; the others go with the second query
WithFirstQuery(o) == Has(o, "quiet") \/ ~(Has(o, "output") \/ Has(o, "from"))

\* the arguments of a query-loki call
QueryLokiArgs ==
    {("query" :> "{app=\"x\"} |= \"a;b\"") @@ o :
        o \in {x \in QueryLokiOptions : WithFirstQuery(x)}}
    \cup {("query" :> "{job=\"a b\"} | json") @@ o :
        o \in {x \in QueryLokiOptions : ~WithFirstQuery(x)}}

GetLabelValuesArgs == {[label |-> l] : l \in {<<"a", "p", "p">>, <<"a", "/", "b">>}}

\* the code of the error execFile gives when stdout outgrows maxBuffer
MaxBufferCode ==
    <<"E", "R", "R", "_", "C", "H", "I", "L", "D", "_", "P", "R", "O", "C", "E",
      "S", "S", "_", "S", "T", "D", "I", "O", "_", "M", "A", "X", "B", "U", "F",
      "F", "E", "R">>

\* how a logcli process ends: its stdout, or the error execFile gives (exit
\* status 1; ended by a signal; more output than execFile buffers)
LogCliOutcomes(tool) ==
    { Return(IF tool = "query-loki"
             THEN <<"l", "1", "\n", "l", "2", "\n">>
             ELSE <<"a", "p", "p", "\n", " ", "j", "o", "b", " ", "\n", "\n">>),
      Throw(ExecError("Command failed: logcli", JNum(1), "boom")),
      Throw(ExecError("Command failed: logcli", JNull, "")),
      Throw(ExecError("stdout maxBuffer length exceeded", JStr(MaxBufferCode), "")) }

\* what comes back for an HTTP request: an answer of the server, or none
QueryAnswers ==
    { Response(200, "OK",
         Envelope(T_streams,
            JArr(<<JObj(<< <<K_stream, JObj(<< <<<<"a", "p", "p">>, JStr(<<"x">>)>> >>)>>,
                           <<K_values, JArr(<<PairList[1], PairList[2]>>)>> >>)>>))),
      Response(200, "OK", Envelope(T_streams, JArr(<<>>))),
      Response(200, "OK", Envelope(T_streams, JArr(<<JNull>>))),
      Response(500, "Internal Server Error", JStr(<<"o", "o", "p", "s">>)),
      NoResponse }

LabelAnswers ==
    { Response(200, "OK",
         JObj(<< <<K_status, JStr(<<"o", "k">>)>>,
                 <<K_data, JArr(<<JStr(<<"a", "p", "p">>), JStr(<<"j", "o", "b">>)>>)>> >>)),
      Response(200, "OK", JObj(<< <<K_status, JStr(<<"o", "k">>)>> >>)),
      Response(404, "Not Found", JNull),
      Response(500, "Internal Server Error", JStr(<<"o", "o", "p", "s">>)),
      NoResponse }

HttpAnswers(tool) == IF tool = "query-loki" THEN QueryAnswers ELSE LabelAnswers

-----------------------------------------------------------------------------
(* LokiClient and the tools: the calls *)

\* the parameters a LokiClient method works with are those of its own
\* invocation, whatever the invocation of another call that began last
OwnParams_LastInvoked(cs, id) ==
    LET same == {j \in DOMAIN cs : cs[j].invoked /\ cs[j].tool = cs[id].tool}
    IN cs[CHOOSE j \in same : \A k \in same : k <= j].params

\* the parameters (query, options, labelName) of the method invocation of
\* call id: locals of that invocation
OwnParams(cs, id) == cs[id].params

\* the handler's answer once its LokiClient call has settled
Settle(call, completion) ==
    [call EXCEPT !.pc = "done", !.result = completion,
                 !.response = HandlerResponse(call.tool, call.args, completion)]

\* the catch block of the logcli method of the call's tool
LogCliCatchOf(tool, p, e) ==
    CASE tool = "query-loki" -> queryLokiViaLogCli_catch(e, p.query, p.options)
      [] tool = "get-labels" -> getLabelsViaLogCli_catch(e)
      [] OTHER -> getLabelValuesViaLogCli_catch(e, p.labelName)

\* the catch block of the HTTP method of the call's tool
HttpCatchOf(tool, p, e) ==
    CASE tool = "query-loki" -> queryLokiViaHttp_catch(e, p.query, p.options)
      [] tool = "get-labels" -> getLabelsViaHttp_catch(e)
      [] OTHER -> getLabelValuesViaHttp_catch(e, p.labelName)

\* a client that goes to the HTTP API whatever isLogCliAvailable answered
Backend_AlwaysHttp(useLogCli) == "http"

\* if (await this.isLogCliAvailable()) ...ViaLogCli(...) else ...ViaHttp(...)
Backend(useLogCli) == IF useLogCli THEN "logcli" ELSE "http"

\* the argument list the logcli method of the tool builds, or what it
\* throws while building it
LogCliArgvOf(tool, p, cfg) ==
    CASE tool = "query-loki" -> LogCliQueryArgs(cfg, p.query, p.options)
      [] tool = "get-labels" -> Return(LogCliLabelsArgs(cfg))
      [] OTHER -> Return(LogCliLabelValuesArgs(cfg, p.labelName))

\* the request the HTTP method of the tool builds, or what it throws
\* before axios.get
HttpRequestOf(tool, p, cfg) ==
    CASE tool = "query-loki" -> HttpQueryRequest(cfg, p.query, p.options)
      [] tool = "get-labels" -> HttpLabelsRequest(cfg)
      [] OTHER -> HttpLabelValuesRequest(cfg, p.labelName)

\* a client that sends the HTTP request when logcli has failed
LogCliFailed_HttpFallback(call, p, e, cfg) ==
    LET request == HttpRequestOf(call.tool, p, cfg)
    IN IF request.ok
       THEN [call EXCEPT !.pc = "http", !.request = request.value,
                         !.started = @ + 1]
       ELSE Settle(call, Throw(HttpCatchOf(call.tool, p, request.error)))

\* execFile has rejected: the catch block of the logcli method throws its
\* LokiClientError, and `return this....ViaLogCli(...)` makes that the
\* rejection of the call
LogCliFailed(call, p, e, cfg) ==
    Settle(call, Throw(LogCliCatchOf(call.tool, p, e)))

\* from the answer of isLogCliAvailable to the await of the backend
\* method: the call waits for logcli or for the HTTP answer, or has
\* settled with the error of the method's catch block
Dispatch(cs, id, useLogCli, cfg) ==
    LET call == [cs[id] EXCEPT !.available = JBool(useLogCli)]
        p == OwnParams(cs, id)
        argv == LogCliArgvOf(call.tool, p, cfg)
        request == HttpRequestOf(call.tool, p, cfg)
    IN IF Backend(useLogCli) = "logcli"
       THEN IF argv.ok
            THEN [call EXCEPT !.pc = "logcli", !.argv = argv.value,
                              !.started = @ + 1]
            ELSE Settle(call, Throw(LogCliCatchOf(call.tool, p, argv.error)))
       ELSE IF request.ok
            THEN [call EXCEPT !.pc = "http", !.request = request.value,
                              !.started = @ + 1]
            ELSE Settle(call, Throw(HttpCatchOf(call.tool, p, request.error)))

\* a tool call arrives: the server checks the arguments against the schema
\* and calls the handler, which calls the LokiClient method, which runs
\* to its first await
CallTool(id, tool, args) ==
    /\ process.running
    /\ calls[id].pc = "idle"
    /\ \A j \in 1..(id - 1) : calls[j].pc # "idle"
    /\ IF ~ToolSchemaAccepts(tool, args)
       THEN calls' = [calls EXCEPT ![id] =
                        [IdleCall EXCEPT !.tool = tool, !.args = args,
                                         !.after = process.handled,
                                         !.pc = "done",
                                         !.response = InvalidArguments(tool)]]
       ELSE LET begun == [calls EXCEPT ![id] =
                            [IdleCall EXCEPT !.tool = tool, !.args = args,
                                             !.after = process.handled,
                                             !.invoked = TRUE,
                                             !.params = HandlerParams(tool, args)]]
            IN calls' = [begun EXCEPT ![id] =
                            IF hasLogCli = JNull
                            THEN [begun[id] EXCEPT !.pc = "probe",
                                                   !.probed = TRUE]
                            ELSE Dispatch(begun, id, hasLogCli.v, config)]
    /\ UNCHANGED <<process, hasLogCli>>
    /\ UNCHANGED <<builderVars, formatterVars, authVars>>

CallQueryLoki(id) == \E args \in QueryLokiArgs : CallTool(id, "query-loki", args)

CallGetLabels(id) == CallTool(id, "get-labels", EmptyObject)

CallGetLabelValues(id) ==
    \E args \in GetLabelValuesArgs : CallTool(id, "get-label-values", args)

\* `logcli --version` of the call's isLogCliAvailable has ended, with
\* exit status 0 or with an error: the answer is stored in hasLogCli and
\* the method goes on with it
ProbeDone(id) ==
    /\ process.running
    /\ calls[id].pc = "probe"
    /\ \E answer \in BOOLEAN :
          /\ hasLogCli' = JBool(answer)
          /\ calls' = [calls EXCEPT ![id] = Dispatch(calls, id, answer, config)]
    /\ UNCHANGED process
    /\ UNCHANGED <<builderVars, formatterVars, authVars>>

\* the logcli process of the call has ended
LogCliExit(id) ==
    /\ process.running
    /\ calls[id].pc = "logcli"
    /\ \E outcome \in LogCliOutcomes(calls[id].tool) :
          LET call == calls[id]
              p == OwnParams(calls, id)
              lines == ParseLabelLines(outcome.value)
              ended == [call EXCEPT !.outcome = outcome]
              completion ==
                IF call.tool = "query-loki" THEN Return(outcome.value)
                ELSE Return(JArr([i \in DOMAIN lines |-> JStr(lines[i])]))
          IN calls' = [calls EXCEPT ![id] =
                          IF ~outcome.ok
                          THEN LogCliFailed(ended, p, outcome.error, config)
                          ELSE Settle(ended, completion)]
    /\ UNCHANGED <<process, hasLogCli>>
    /\ UNCHANGED <<builderVars, formatterVars, authVars>>

\* the HTTP request of the call has ended
HttpDone(id) ==
    /\ process.running
    /\ calls[id].pc = "http"
    /\ \E answer \in HttpAnswers(calls[id].tool) :
          LET call == calls[id]
              p == OwnParams(calls, id)
              got == IF answer.present THEN AxiosSettle(answer)
                     ELSE Throw(AxiosError("connect ECONNREFUSED", NoResponse))
              made == IF ~got.ok THEN got
                      ELSE IF call.tool = "query-loki"
                      THEN formatHttpResponse(got.value.data, p.options)
                      ELSE Return(JArr(LabelsOfResponse(got.value.data)))
              completion ==
                IF made.ok THEN made
                ELSE Throw(HttpCatchOf(call.tool, p, made.error))
          IN calls' = [calls EXCEPT ![id] =
                          Settle([call EXCEPT !.outcome = answer], completion)]
    /\ UNCHANGED <<process, hasLogCli>>
    /\ UNCHANGED <<builderVars, formatterVars, authVars>>

\* the server after start-up: LokiAuth constructed from the environment,
\* LokiClient constructed with it, no tool call yet
Init ==
    /\ env \in ClientEnvs
    /\ files = NoFiles
    /\ config = Constructed(env, files).config
    /\ authLog = Constructed(env, files).log
    /\ authPc = "done"
    /\ safeConfig = EmptyObject
    /\ authReturned = NotCalled
    /\ process = Started
    /\ hasLogCli = JNull
    /\ calls = [id \in 1..MaxCalls |-> IdleCall]
    /\ BuilderOff /\ FormatterOff

Next ==
    \E id \in 1..MaxCalls :
        \/ CallQueryLoki(id)
        \/ CallGetLabels(id)
        \/ CallGetLabelValues(id)
        \/ ProbeDone(id)
        \/ LogCliExit(id)
        \/ HttpDone(id)

Spec == Init /\ [][Next]_vars

-----------------------------------------------------------------------------
(* The server with errors outside the tool calls *)

\* what is thrown, or what a promise is rejected with, where no tool
\* handler catches it: Error objects and other values
ThrownValues ==
    { ErrorObject("Error", "write EPIPE"),
      OtherValue("closed") }

\* an exception reaches the event loop
UncaughtException ==
    /\ process.running
    /\ process.handled < MaxErrors
    /\ \E thrown \in ThrownValues :
          process' = EmitOnProcess(process, "uncaughtException", thrown)
    /\ UNCHANGED <<hasLogCli, calls>>
    /\ UNCHANGED <<builderVars, formatterVars, authVars>>

\* a promise is rejected and nothing handles the rejection
UnhandledRejection ==
    /\ process.running
    /\ process.handled < MaxErrors
    /\ \E thrown \in ThrownValues :
          process' = EmitOnProcess(process, "unhandledRejection", thrown)
    /\ UNCHANGED <<hasLogCli, calls>>
    /\ UNCHANGED <<builderVars, formatterVars, authVars>>

ServerNext ==
    \/ UncaughtException
    \/ UnhandledRejection
    \/ \E id \in 1..MaxCalls :
          \/ CallGetLabels(id)
          \/ ProbeDone(id)
          \/ LogCliExit(id)
          \/ HttpDone(id)

\* the server started with an address and credentials
ServerInit == Init /\ Has(env, "LOKI_USERNAME")

SpecServer == ServerInit /\ [][ServerNext]_vars

-----------------------------------------------------------------------------
(* The tool handlers on every completion of the client call *)

\* what a call of the client may be rejected with, were it to throw
\* anything: typed errors with codes inside and outside ErrorCodeMapping,
\* an Error of another class, a value that is not an Error
ThrownInHandler ==
    { LokiClientError("http_query_error", "HTTP query failed: timeout",
                      [query |-> "q"], NoCause),
      LokiClientError("query_execution_failed_2", "LogCLI query error: usage",
                      [query |-> "q"], NoCause),
      LokiClientError("query_execution_failed_130", "LogCLI query error: ",
                      [query |-> "q"], NoCause),
      LokiClientError("execution_failed", "Failed to get labels: boom",
                      [command |-> "labels"], NoCause),
      LokiAuthError("config_load_error", "Failed to load configuration",
                    EmptyObject, NoCause),
      LokiAuthError("token_expired", "token expired", EmptyObject, NoCause),
      [name |-> "TypeError", message |-> "values.join is not a function"],
      [name |-> "", message |-> "closed"] }

\* the completions of the client method a handler awaits
HandlerCompletions(tool) ==
    { Return(IF tool = "query-loki" THEN <<"l", "1", "\n">>
             ELSE JArr(<<JStr(<<"a", "p", "p">>), JStr(<<"j", "o", "b">>)>>)),
      Return(IF tool = "query-loki" THEN <<>> ELSE JArr(<<>>)) }
    \cup {Throw(e) : e \in ThrownInHandler}

\* a handler at the await of its client call, which will end with the
\* completion
Awaiting(tool, args, completion) ==
    [IdleCall EXCEPT !.tool = tool, !.args = args, !.invoked = TRUE,
                     !.params = HandlerParams(tool, args),
                     !.pc = "await", !.outcome = completion]

HandlersInit ==
    /\ BuilderOff /\ FormatterOff /\ AuthOff
    /\ process = Started
    /\ hasLogCli = JNull
    /\ \E tool \in {"query-loki", "get-labels", "get-label-values"} :
         \E args \in (CASE tool = "query-loki" -> QueryLokiArgs
                        [] tool = "get-labels" -> {EmptyObject}
                        [] OTHER -> GetLabelValuesArgs) :
           \E completion \in HandlerCompletions(tool) :
              calls = [id \in 1..MaxCalls |->
                          IF id = 1 THEN Awaiting(tool, args, completion)
                          ELSE IdleCall]

\* the await of the handler ends: the handler returns the text, or its
\* catch block returns createToolErrorResponse(...)
HandlerResumes(id) ==
    /\ calls[id].pc = "await"
    /\ calls' = [calls EXCEPT ![id] = Settle(calls[id], calls[id].outcome)]
    /\ UNCHANGED <<process, hasLogCli>>
    /\ UNCHANGED <<builderVars, formatterVars, authVars>>

HandlersNext == \E id \in 1..MaxCalls : HandlerResumes(id)

SpecHandlers == HandlersInit /\ [][HandlersNext]_vars

-----------------------------------------------------------------------------
(* Claims about the builder *)

\* the ISO-8601 text of a valid instant
Iso(ms) == Join(toISOString(ValidDate(ms)).value)

ValidInstants == {d.ms : d \in {x \in Dates : x.valid}}

\* every token that sets --from, and every token that sets --to
FromTokens == {"--from=" \o Iso(ms) : ms \in ValidInstants \cup {n - MsPerHour : n \in Nows}}

ToTokens == {"--to=" \o Iso(ms) : ms \in ValidInstants} \cup {"--to=now"}

CountIn(seq, S) == Cardinality({i \in DOMAIN seq : seq[i] \in S})

DatesUsable(opts) ==
    /\ Has(opts, "from") => opts.from.valid
    /\ Has(opts, "to") => opts.to.valid

\* C2: buildQuerySpecificArgs returns, for options without from and to,
\* --from=<ISO of now minus one hour> then --to=now; for options with both,
\* --from=<ISO of from> then --to=<ISO of to>; every list it returns holds
\* exactly one --from and one --to token, and after them only tokens of
\* options that were given.  (It returns whenever the dates given are valid.)
C2_QuerySpecificArgs ==
    builderPc = "done" =>
        /\ DatesUsable(options) <=> built.ok
        /\ built.ok =>
            LET args == built.value IN
            /\ Len(args) >= 2
            /\ (~Has(options, "from") /\ ~Has(options, "to")) =>
                    /\ args[1] = "--from=" \o Iso(now - MsPerHour)
                    /\ args[2] = "--to=now"
            /\ (Has(options, "from") /\ Has(options, "to")) =>
                    /\ args[1] = "--from=" \o Iso(options.from.ms)
                    /\ args[2] = "--to=" \o Iso(options.to.ms)
            /\ CountIn(args, FromTokens) = 1
            /\ CountIn(args, ToTokens) = 1
            /\ \A i \in 3..Len(args) :
                   \/ /\ Has(options, "limit")
                      /\ args[i] = "--limit=" \o Join(NumToChars(options.limit))
                   \/ /\ Has(options, "batch")
                      /\ args[i] = "--batch=" \o Join(NumToChars(options.batch))
                   \/ /\ Has(options, "forward") /\ options.forward
                      /\ args[i] = "--forward"

\* the default window, with a limit: Date.now() = 1234 ms, so one hour
\* before it is in 1969
C2_Witness ==
    /\ builderPc = "done"
    /\ ~Has(options, "from") /\ ~Has(options, "to")
    /\ built.ok
    /\ built.value = <<"--from=1969-12-31T23:00:01.234Z", "--to=now", "--limit=100">>

\* C20: buildGlobalArgs returns --quiet exactly when quiet is true, then
\* --output=<mode> exactly when an output mode is given, and nothing
\* else; with neither it returns the empty list.
C20_GlobalArgs ==
    builderPc = "global" =>
        LET quiet == Has(options, "quiet") /\ options.quiet
            output == Has(options, "output")
            args == built.value
        IN /\ built.ok
           /\ Len(args) = (IF quiet THEN 1 ELSE 0) + (IF output THEN 1 ELSE 0)
           /\ quiet => args[1] = "--quiet"
           /\ output => args[Len(args)] = "--output=" \o options.output
           /\ (~quiet /\ ~output) => args = <<>>

\* quiet and an output mode, next to options that are not global
C20_Witness ==
    /\ builderPc = "global"
    /\ Has(options, "limit") /\ Has(options, "forward")
    /\ built = Return(<<"--quiet", "--output=jsonl">>)

-----------------------------------------------------------------------------
(* Claims about LokiAuth *)

ConfigFieldNames == {StringFields[i][1] : i \in DOMAIN StringFields}
                    \cup {"tls_skip_verify"}

EnvVarOf(field) ==
    IF field = "tls_skip_verify" THEN "LOKI_TLS_SKIP_VERIFY"
    ELSE StringFields[CHOOSE i \in DOMAIN StringFields :
                        StringFields[i][1] = field][2]

\* the environment supplies a value for the field: its variable is set to
\* a text that is not empty
EnvSupplies(field) == Has(env, EnvVarOf(field)) /\ env[EnvVarOf(field)] # <<>>

\* the value the environment supplies: the text, and for tls_skip_verify
\* whether the text is the literal true
EnvValue(field) ==
    IF field = "tls_skip_verify"
    THEN JBool(env[EnvVarOf(field)] = <<"t", "r", "u", "e">>)
    ELSE JStr(env[EnvVarOf(field)])

\* the candidate files in order: the custom one when LOKI_CONFIG_PATH names
\* one, the one of the current directory, the one of the home directory
Candidates ==
    (IF Has(env, "LOKI_CONFIG_PATH") /\ env["LOKI_CONFIG_PATH"] # <<>>
     THEN <<CustomPath>> ELSE <<>>) \o <<CwdPath, HomePath>>

Loads(path) == files[path].exists /\ files[path].load.ok

FileChosen == \E i \in DOMAIN Candidates : Loads(Candidates[i])

\* the chosen file: the first candidate that exists and parses
ChosenDocument ==
    files[Candidates[CHOOSE i \in DOMAIN Candidates :
                        /\ Loads(Candidates[i])
                        /\ \A j \in 1..(i - 1) : ~Loads(Candidates[j])]].load.value

FileSupplies(field) ==
    /\ FileChosen
    /\ ChosenDocument.t = "obj"
    /\ \E i \in DOMAIN ChosenDocument.v : Join(ChosenDocument.v[i][1]) = field

FileValue(field) ==
    ChosenDocument.v[CHOOSE i \in DOMAIN ChosenDocument.v :
                        Join(ChosenDocument.v[i][1]) = field][2]

\* C7: once the configuration is loaded, every field the environment
\* supplies holds the environment's value whatever the chosen file says,
\* and every field the environment does not supply and the chosen file
\* does holds the file's value.
C7_EnvOverFile ==
    authPc \in {"file", "done"} =>
        \A field \in ConfigFieldNames :
            /\ EnvSupplies(field) =>
                    Has(config, field) /\ config[field] = EnvValue(field)
            /\ (~EnvSupplies(field) /\ FileSupplies(field)) =>
                    Has(config, field) /\ config[field] = FileValue(field)

\* the environment and the file of the current directory both give addr,
\* only the file gives username
C7_Witness ==
    /\ authPc = "done"
    /\ EnvSupplies("addr") /\ FileSupplies("addr")
    /\ FileValue("addr") = JStr(Chars("http://g"))
    /\ config.addr = JStr(Chars("http://e"))
    /\ ~EnvSupplies("username") /\ FileSupplies("username")
    /\ config.username = JStr(Chars("ug"))

\* C18: for every configuration the constructor resolves, what getConfig
\* returns has neither password nor bearer_token, and has every other
\* field of the configuration with its value, and nothing else.
C18_RedactedView ==
    authPc = "read" =>
        /\ ~Has(safeConfig, "password")
        /\ ~Has(safeConfig, "bearer_token")
        /\ DOMAIN safeConfig \subseteq DOMAIN config
        /\ \A field \in DOMAIN config \ {"password", "bearer_token"} :
                Has(safeConfig, field) /\ safeConfig[field] = config[field]

\* a configuration with a password of the environment and a bearer token
\* of a file: the view keeps the user name and the tenant
C18_Witness ==
    /\ authPc = "read"
    /\ Has(config, "password") /\ config.password = JStr(Chars("p w"))
    /\ Has(config, "bearer_token") /\ config.bearer_token = JStr(Chars("tk"))
    /\ Has(safeConfig, "username") /\ safeConfig.username = JStr(Chars("ue"))
    /\ Has(safeConfig, "tenant_id") /\ safeConfig.tenant_id = JStr(Chars("t1"))
    /\ DOMAIN config \ DOMAIN safeConfig = {"password", "bearer_token"}

C25_FirstLoadableFile ==
    authPc \in {"file", "done", "read"} =>
        LET fromEnv == loadFromEnv(EmptyObject, env)
            fromFile == IF FileChosen THEN Spread(ChosenDocument)
                        ELSE EmptyObject
        IN /\ DOMAIN config = DOMAIN fromEnv \cup DOMAIN fromFile
           /\ \A field \in DOMAIN config :
                 config[field] = IF Has(fromEnv, field) THEN fromEnv[field]
                                 ELSE fromFile[field]

\* the explicit path names a file that cannot be parsed, the current
\* directory has no file, the home directory has one: its fields are taken
C25_Witness ==
    /\ authPc = "file"
    /\ Candidates = <<CustomPath, CwdPath, HomePath>>
    /\ files[CustomPath] = Unloadable
    /\ files[CwdPath] = Missing
    /\ Loads(HomePath)
    /\ ~Has(env, "LOKI_ADDR") /\ ~Has(env, "LOKI_USERNAME")
    /\ Has(config, "addr") /\ config.addr = JStr(Chars("http://h"))
    /\ Has(config, "username") /\ config.username = JStr(Chars("uh"))

\* the fields with a token of their own and the flag of each, in the order
\* the tokens are to come
FlagOfField ==
    << <<"addr", "--addr=">>, <<"username", "--username=">>,
       <<"password", "--password=">>, <<"tenant_id", "--tenant-id=">>,
       <<"bearer_token", "--bearer-token=">>,
       <<"bearer_token_file", "--bearer-token-file=">>,
       <<"ca_file", "--ca-file=">>, <<"cert_file", "--cert-file=">>,
       <<"key_file", "--key-file=">>, <<"org_id", "--org-id=">> >>

\* the field is present: the configuration has a text for it that is not
\* empty
FieldPresent(field) == Has(config, field) /\ config[field] # JStr(<<>>)

\* the places of a token in the list getAuthArgs returned
PlacesOf(token) ==
    {i \in DOMAIN authReturned.value : authReturned.value[i] = token}

TokenOf(k) == FlagOfField[k][2] \o Join(config[FlagOfField[k][1]].v)

\* C27: what getAuthArgs returns has exactly one token --<flag>=<value> for
\* every field that is present, these tokens in the order addr, username,
\* password, tenant-id, bearer-token, bearer-token-file, ca-file, cert-file,
\* key-file, org-id, then --tls-skip-verify as the last token exactly when
\* tls_skip_verify is true, and nothing else: no token for a field that is
\* absent or empty.
C27_AuthArgs ==
    authPc = "args" =>
        LET args == authReturned.value
            present == {k \in DOMAIN FlagOfField : FieldPresent(FlagOfField[k][1])}
            tls == Has(config, "tls_skip_verify")
                        /\ config.tls_skip_verify = JBool(TRUE)
        IN /\ Len(args) = Cardinality(present) + (IF tls THEN 1 ELSE 0)
           /\ \A k \in present : Cardinality(PlacesOf(TokenOf(k))) = 1
           /\ \A k \in present, m \in present :
                 k < m => \A i \in PlacesOf(TokenOf(k)), j \in PlacesOf(TokenOf(m)) :
                              i < j
           /\ tls <=> (args # <<>> /\ args[Len(args)] = "--tls-skip-verify")
           /\ \A i \in DOMAIN args : args[i] \notin {FlagOfField[k][2] : k \in DOMAIN FlagOfField}

\* address and password of the environment, the other fields of a file
\* that lists them in another order and has an empty user name
C27_Witness ==
    /\ authPc = "args"
    /\ Has(config, "username") /\ config.username = JStr(<<>>)
    /\ ~Has(config, "key_file")
    /\ authReturned.value =
          <<"--addr=http://e", "--password=p w", "--tenant-id=t1",
            "--bearer-token=tk", "--ca-file=/c", "--org-id=o1",
            "--tls-skip-verify">>

\* C29: after the constructor has returned the stored configuration is the
\* one the constructor left, every field of it, whatever has been called
\* since: getAuthArgs, getConfig and isConfigValid do not write to it, and
\* a caller that writes to the object getConfig returned changes that
\* object only.
C29_ConfigNeverChanged ==
    authPc \in {"done", "read", "changed", "args", "valid"} =>
        config = Constructed(env, files).config

\* the caller has overwritten addr in the view: the stored address is the
\* one of the environment as before
C29_Witness ==
    /\ authPc = "changed"
    /\ Has(safeConfig, "addr") /\ safeConfig.addr = JStr(<<"x">>)
    /\ Has(config, "addr") /\ config.addr = JStr(Chars("http://e"))
    /\ Has(config, "password")

-----------------------------------------------------------------------------
(* Claims about LokiClient and the tools *)

CallIds == 1..MaxCalls

\* the query-loki calls that went to logcli, and those that went to HTTP
OnLogCli(id) == calls[id].pc \in {"logcli", "done"} /\ calls[id].argv # <<>>

OnHttp(id) == calls[id].pc \in {"http", "done"} /\ calls[id].request # EmptyObject

IsQuery(id) == calls[id].tool = "query-loki" /\ calls[id].invoked

\* the tokens --from, --to, --limit, --batch and --forward can take for the
\* options of a call
QuerySpecificTokens(opts) ==
    (IF Has(opts, "from") /\ opts.from.valid
     THEN {"--from=" \o Iso(opts.from.ms)} ELSE {})
    \cup (IF Has(opts, "to") /\ opts.to.valid
          THEN {"--to=" \o Iso(opts.to.ms)} ELSE {})
    \cup (IF Has(opts, "limit")
          THEN {"--limit=" \o Join(NumToChars(opts.limit))} ELSE {})
    \cup (IF Has(opts, "batch")
          THEN {"--batch=" \o Join(NumToChars(opts.batch))} ELSE {})
    \cup {"--forward"}

\* C1: the argument vector queryLoki hands to logcli is the authentication
\* arguments, then the global arguments, then the token query, then
\* query-specific tokens only, then the query string of the call as the
\* last element, unchanged.
C1_ArgvOrder ==
    \A id \in CallIds :
        (IsQuery(id) /\ OnLogCli(id)) =>
            LET argv == calls[id].argv
                opts == calls[id].params.options
                auth == getAuthArgs(config)
                global == buildGlobalArgs(opts)
                a == Len(auth)
                g == Len(global)
            IN /\ Len(argv) >= a + g + 2
               /\ SubSeq(argv, 1, a) = auth
               /\ SubSeq(argv, a + 1, a + g) = global
               /\ argv[a + g + 1] = "query"
               /\ \A i \in (a + g + 2)..(Len(argv) - 1) :
                     argv[i] \in QuerySpecificTokens(opts)
               /\ argv[Len(argv)] = calls[id].args.query

\* a query with quotes, a bar and a semicolon, credentials with a space,
\* and every option
C1_Witness ==
    \E id \in CallIds :
        /\ calls[id].pc = "logcli"
        /\ calls[id].argv =
            <<"--addr=http://e", "--username=ue", "--password=p w",
              "--tenant-id=t1", "--tls-skip-verify", "--quiet", "--output=raw",
              "query", "--from=1970-01-01T01:00:00.000Z",
              "--to=1970-01-01T02:01:01.001Z", "--limit=100", "--forward",
              "{app=\"x\"} |= \"a;b\"">>

\* C3: a query-loki call with a limit above 5000 is refused before the
\* handler runs: queryLoki is not called, nothing is started, and the
\* answer is an error.
C3_LimitAboveMaximumRejected ==
    \A id \in CallIds :
        (/\ calls[id].tool = "query-loki"
         /\ Has(calls[id].args, "limit") /\ calls[id].args.limit > 5000) =>
            /\ ~calls[id].invoked
            /\ calls[id].argv = <<>>
            /\ calls[id].request = EmptyObject
            /\ calls[id].pc = "done" => Has(calls[id].response, "isError")

\* C4: the parameters of a query_range request always hold limit: the
\* limit of the call when it is given and at most 5000, else 1000.
C4_HttpLimitAlwaysPresent ==
    \A id \in CallIds :
        (IsQuery(id) /\ OnHttp(id)) =>
            LET opts == calls[id].params.options
                params == calls[id].request.params
            IN /\ Has(params, "limit")
               /\ params.limit =
                    Join(NumToChars(IF Has(opts, "limit") /\ opts.limit <= 5000
                                    THEN opts.limit ELSE DEFAULT_LIMIT))

\* the labels endpoint answered, but not with a 2xx status, or did not
\* answer at all
LabelsHttpFailed(id) ==
    /\ calls[id].tool = "get-labels" /\ calls[id].pc = "done" /\ OnHttp(id)
    /\ calls[id].outcome.present =>
            (calls[id].outcome.status < 200 \/ calls[id].outcome.status >= 300)

\* C8: when the labels endpoint answers with a status that is not 2xx, or
\* the connection fails, getLabels rejects with a LokiClientError of code
\* http_query_error, whose details hold the status of the answer when there
\* was one.
C8_LabelsHttpError ==
    \A id \in CallIds :
        LabelsHttpFailed(id) =>
            /\ ~calls[id].result.ok
            /\ calls[id].result.error.name = "LokiClientError"
            /\ calls[id].result.error.code = "http_query_error"
            /\ calls[id].outcome.present =>
                    /\ Has(calls[id].result.error.details, "status")
                    /\ calls[id].result.error.details.status
                            = JNum(calls[id].outcome.status)

\* the labels endpoint answered 404
C8_Witness ==
    \E id \in CallIds :
        /\ LabelsHttpFailed(id)
        /\ calls[id].outcome.present /\ calls[id].outcome.status = 404
        /\ calls[id].result.error.code = "http_query_error"
        /\ calls[id].result.error.details.status = JNum(404)
        /\ calls[id].result.error.message
                = "HTTP labels query failed: Request failed with status code 404"

\* what a queryLoki invocation with these tool arguments gives when it is
\* the only one: its argument vector, its request, and the text or error
\* for the way its backend ended
AloneArgv(args) ==
    LogCliQueryArgs(config, args.query, HandlerOptions(args))

AloneRequest(args) ==
    HttpQueryRequest(config, args.query, HandlerOptions(args))

AloneResult(args, viaLogCli, outcome) ==
    LET opts == HandlerOptions(args) IN
    IF viaLogCli
    THEN IF ~AloneArgv(args).ok
         THEN Throw(queryLokiViaLogCli_catch(AloneArgv(args).error, args.query, opts))
         ELSE IF outcome.ok THEN Return(outcome.value)
         ELSE Throw(queryLokiViaLogCli_catch(outcome.error, args.query, opts))
    ELSE IF ~AloneRequest(args).ok
         THEN Throw(queryLokiViaHttp_catch(AloneRequest(args).error, args.query, opts))
         ELSE LET got == IF outcome.present THEN AxiosSettle(outcome)
                         ELSE Throw(AxiosError("connect ECONNREFUSED", NoResponse))
                  made == IF got.ok THEN formatHttpResponse(got.value.data, opts)
                          ELSE got
              IN IF made.ok THEN made
                 ELSE Throw(queryLokiViaHttp_catch(made.error, args.query, opts))

\* C9: in every interleaving of the calls, the argument vector or request
\* of a queryLoki invocation, and what it returns, are those the invocation
\* gives alone with the same backend: they come from its own query and
\* options only.
C9_CallsDoNotInterfere ==
    \A id \in CallIds :
        IsQuery(id) =>
            LET call == calls[id] IN
            /\ OnLogCli(id) => call.argv = AloneArgv(call.args).value
            /\ OnHttp(id) => call.request = AloneRequest(call.args).value
            /\ (call.pc = "done" /\ call.available # JNull) =>
                    call.result = AloneResult(call.args, call.available.v, call.outcome)

\* two invocations with different queries and options wait for their
\* logcli processes at the same time
C9_Witness ==
    /\ MaxCalls >= 2
    /\ IsQuery(1) /\ IsQuery(2)
    /\ calls[1].pc = "logcli" /\ calls[2].pc = "logcli"
    /\ calls[1].args.query # calls[2].args.query
    /\ calls[1].argv = <<"query", "--limit=6000", "{app=\"x\"} |= \"a;b\"">>
    /\ calls[2].argv = <<"--output=jsonl", "query",
                         "--to=1970-01-01T02:01:01.001Z", "--limit=5000",
                         "--batch=50", "{job=\"a b\"} | json">>

\* C10: whatever queryLoki, getLabels or getLabelValues rejects with is a
\* LokiClientError with a code and a message that are not empty.
C10_RejectsWithLokiClientError ==
    \A id \in CallIds :
        (calls[id].invoked /\ calls[id].pc = "done" /\ ~calls[id].result.ok) =>
            /\ calls[id].result.error.name = "LokiClientError"
            /\ calls[id].result.error.code # ""
            /\ calls[id].result.error.message # ""

\* an invalid date in the options, on the logcli path: toISOString throws
\* a RangeError, and the catch block of the method wraps it
C10_Witness ==
    \E id \in CallIds :
        /\ calls[id].invoked /\ calls[id].pc = "done" /\ ~calls[id].result.ok
        /\ calls[id].tool = "query-loki"
        /\ Has(calls[id].params.options, "from")
        /\ ~calls[id].params.options.from.valid
        /\ calls[id].result.error.name = "LokiClientError"
        /\ calls[id].result.error.code = "query_execution_failed"
        /\ calls[id].result.error.message = "LogCLI query error: Invalid time value"
        /\ calls[id].result.error.cause.name = "RangeError"

\* the calls whose LokiClient method has rejected, by the backend that
\* isLogCliAvailable chose for them
FailedOnLogCli(id) ==
    /\ calls[id].invoked /\ calls[id].pc = "done" /\ ~calls[id].result.ok
    /\ calls[id].available = JBool(TRUE)

FailedOnHttp(id) ==
    /\ calls[id].invoked /\ calls[id].pc = "done" /\ ~calls[id].result.ok
    /\ calls[id].available = JBool(FALSE)

\* the errors execFile may give for a logcli query with a code that is
\* not null: all of them, or those whose code is a number
ExecErrors(numbersOnly) ==
    {o \in LogCliOutcomes("query-loki") :
        /\ ~o.ok /\ o.error.code.t # "null"
        /\ numbersOnly => o.error.code.t = "num"}

\* the codes of the logcli path of queryLoki for these errors of execFile
LogCliQueryCodes(execErrors) ==
    {"query_execution_failed"}
    \cup {"query_execution_failed_" \o Join(ToStringChars(o.error.code)) :
                o \in execErrors}

Answered2xx(call) ==
    /\ Has(call.outcome, "present") /\ call.outcome.present
    /\ call.outcome.status >= 200 /\ call.outcome.status < 300

\* C12: a queryLoki invocation that isLogCliAvailable answered true runs
\* logcli with its argument vector, sends no HTTP request, and returns the
\* stdout of logcli as it is; one that it answered false starts no logcli,
\* sends the query_range request, and returns what formatHttpResponse
\* makes of the body of the answer.
C12_BackendByProbe ==
    \A id \in CallIds :
        (IsQuery(id) /\ calls[id].available # JNull) =>
            LET call == calls[id]
                opts == call.params.options
                argv == LogCliQueryArgs(config, call.params.query, opts)
                request == HttpQueryRequest(config, call.params.query, opts)
            IN IF call.available.v
               THEN /\ call.request = EmptyObject
                    /\ argv.ok => (call.argv = argv.value /\ call.argv # <<>>)
                    /\ (call.pc = "done" /\ Has(call.outcome, "ok")
                            /\ call.outcome.ok) =>
                          call.result = Return(call.outcome.value)
               ELSE /\ call.argv = <<>>
                    /\ request.ok => call.request = request.value
                    /\ (call.pc = "done" /\ Answered2xx(call)
                            /\ formatHttpResponse(call.outcome.data, opts).ok) =>
                          call.result = formatHttpResponse(call.outcome.data, opts)

\* one query has returned the two lines logcli wrote, another the text
\* the formatter made of a streams answer
C12_Witness ==
    \E i \in CallIds, j \in CallIds :
        /\ IsQuery(i) /\ calls[i].available = JBool(TRUE) /\ calls[i].pc = "done"
        /\ calls[i].argv # <<>> /\ calls[i].request = EmptyObject
        /\ calls[i].result = Return(<<"l", "1", "\n", "l", "2", "\n">>)
        /\ IsQuery(j) /\ calls[j].available = JBool(FALSE) /\ calls[j].pc = "done"
        /\ calls[j].argv = <<>> /\ calls[j].request # EmptyObject
        /\ Answered2xx(calls[j]) /\ calls[j].result.ok
        /\ calls[j].result.value # NoResultsFound
        /\ calls[j].result.value # <<"l", "1", "\n", "l", "2", "\n">>

\* the calls whose isLogCliAvailable started a logcli --version process
Probed == {id \in CallIds : calls[id].probed}

\* C13: in every interleaving of the calls, overlapping ones included,
\* logcli --version is started at most once in the lifetime of the
\* client: its answer is cached and no later call starts it again.
C13_ProbeAtMostOnce == Cardinality(Probed) <= 1

\* C14: the headers of every query_range, labels and label-values
\* request hold Authorization: Basic <base64(username:password)> when the
\* resolved configuration has a username and a password, otherwise
\* Authorization: Bearer <token> when it has a bearer token, otherwise no
\* Authorization header.
C14_AuthorizationHeader ==
    \A id \in CallIds :
        OnHttp(id) =>
            LET headers == calls[id].request.headers IN
            IF ConfigTruthy(config, "username") /\ ConfigTruthy(config, "password")
            THEN /\ Has(headers, "Authorization")
                 /\ headers["Authorization"] =
                        "Basic " \o Join(Base64(ToStringChars(config.username)
                                                 \o <<":">>
                                                 \o ToStringChars(config.password)))
            ELSE IF ConfigTruthy(config, "bearer_token")
            THEN /\ Has(headers, "Authorization")
                 /\ headers["Authorization"] =
                        "Bearer " \o Join(ToStringChars(config.bearer_token))
            ELSE ~Has(headers, "Authorization")

\* the calls that isLogCliAvailable sent to the HTTP API of a client whose
\* configuration has no server address
OnHttpWithoutAddr(id) ==
    /\ calls[id].invoked /\ calls[id].available = JBool(FALSE)
    /\ ~ConfigTruthy(config, "addr")

\* C15: on the HTTP path without a configured server address queryLoki,
\* getLabels and getLabelValues each reject with a LokiClientError with
\* code http_query_error, and no HTTP request is sent.
C15_NoAddrNoRequest ==
    \A id \in CallIds :
        OnHttpWithoutAddr(id) =>
            /\ calls[id].pc = "done"
            /\ calls[id].request = EmptyObject
            /\ calls[id].outcome = EmptyObject
            /\ ~calls[id].result.ok
            /\ calls[id].result.error.name = "LokiClientError"
            /\ calls[id].result.error.code = "http_query_error"

\* a label-values call and a query, both rejected for the missing address
C15_Witness ==
    \E i \in CallIds, j \in CallIds :
        /\ OnHttpWithoutAddr(i) /\ calls[i].tool = "get-label-values"
        /\ calls[i].result.error.code = "http_query_error"
        /\ calls[i].result.error.message =
              "HTTP label values query failed: Loki server address (addr) is not configured"
        /\ OnHttpWithoutAddr(j) /\ calls[j].tool = "query-loki"
        /\ calls[j].result.error.message =
              "HTTP query failed: Loki server address (addr) is not configured"
        /\ calls[i].request = EmptyObject /\ calls[j].request = EmptyObject

\* C16: on the HTTP path getLabels resolves to a string, and the string
\* is a JSON document whose property labels is the array of the label
\* names the server answered with.
C16_LabelsAsJsonString ==
    \A id \in CallIds :
        (/\ calls[id].tool = "get-labels" /\ calls[id].pc = "done"
         /\ calls[id].available = JBool(FALSE) /\ calls[id].result.ok) =>
            /\ calls[id].result.value.t = "str"
            /\ \E indent \in {0, 2} :
                  calls[id].result.value.v =
                    JsonStringify(
                        JObj(<< <<K_labels,
                                  JArr(LabelsOfResponse(calls[id].outcome.data))>> >>),
                        indent, 0)

\* C21: the argument list queryLoki hands to logcli has, between "query" and
\* the query string, exactly what buildQuerySpecificArgs returns for the same
\* options at some time of the call: so one --from token (an hour before now
\* when options.from is unset) and one --to token (--to=now when options.to
\* is unset).
C21_ArgvFromBuilder ==
    \A id \in CallIds :
        (IsQuery(id) /\ OnLogCli(id)) =>
            LET opts == calls[id].params.options
            IN \E nowMs \in Nows :
                /\ buildQuerySpecificArgs(opts, nowMs).ok
                /\ calls[id].argv =
                       getAuthArgs(config)
                       \o buildGlobalArgs(opts)
                       \o <<"query">>
                       \o buildQuerySpecificArgs(opts, nowMs).value
                       \o <<calls[id].params.query>>

\* C22: the cached answer of the logcli probe is written once: after it has
\* become true or false no step changes it, whatever calls overlap and
\* whatever the probes they started answer.
C22_WriteOnce == [][hasLogCli # JNull => hasLogCli' = hasLogCli]_vars

\* what the HTTP method of call id throws before it sends a request, if
\* anything: the completion of the statements before axios.get
ThrownBeforeRequest(id) ==
    HttpRequestOf(calls[id].tool, calls[id].params, config)

\* C23: a LokiClientError created inside an operation of the client reaches
\* the caller as it was created, with the same code, message, details and
\* cause and not wrapped in another error; so does the error for the
\* address that is not configured on the HTTP path.
C23_TypedErrorUnmodified ==
    \A id \in CallIds :
        (FailedOnHttp(id) /\ calls[id].request = EmptyObject
            /\ ~ThrownBeforeRequest(id).ok
            /\ ThrownBeforeRequest(id).error.name = "LokiClientError") =>
                calls[id].result.error = ThrownBeforeRequest(id).error

\* C24: no invocation of queryLoki, getLabels or getLabelValues starts more
\* than one backend request (a logcli process or an HTTP GET, the probe not
\* counted), and a call that has started logcli never sends an HTTP request:
\* after logcli has failed the call is rejected, with no fallback.
C24_NoRetryNoFallback ==
    \A id \in CallIds :
        /\ calls[id].started <= 1
        /\ ~(calls[id].argv # <<>> /\ calls[id].request # EmptyObject)
        /\ (calls[id].argv # <<>> /\ calls[id].outcome # EmptyObject
                /\ ~calls[id].outcome.ok) =>
              /\ calls[id].pc = "done"
              /\ ~calls[id].result.ok

\* logcli has failed for a call of a client whose configuration has the
\* address the HTTP API would need
C24_Witness ==
    \E id \in CallIds :
        /\ FailedOnLogCli(id)
        /\ ConfigTruthy(config, "addr")
        /\ calls[id].argv # <<>>
        /\ ~calls[id].outcome.ok
        /\ calls[id].started = 1
        /\ calls[id].request = EmptyObject

\* the query-loki calls whose queryLoki has rejected
QueryRejected(id) ==
    IsQuery(id) /\ calls[id].pc = "done" /\ ~calls[id].result.ok

\* the failure the catch block of the backend method received: what the
\* statements before the request threw, what execFile or axios.get
\* rejected with, or what formatHttpResponse threw
OriginalFailure(id) ==
    LET call == calls[id]
        p == call.params
    IN IF call.argv # <<>> THEN call.outcome.error
       ELSE IF call.request = EmptyObject
       THEN IF call.available.v
            THEN LogCliArgvOf(call.tool, p, config).error
            ELSE HttpRequestOf(call.tool, p, config).error
       ELSE IF ~call.outcome.present
       THEN AxiosError("connect ECONNREFUSED", NoResponse)
       ELSE IF ~AxiosSettle(call.outcome).ok
       THEN AxiosSettle(call.outcome).error
       ELSE formatHttpResponse(call.outcome.data, p.options).error

\* the error of a rejected queryLoki has the query and the options of the
\* invocation in its details and the original failure as its cause; on the
\* logcli path the details have stderr and the code of the error of
\* execFile
QueryErrorCarriesInput(id) ==
    LET err == calls[id].result.error
    IN /\ Has(err.details, "query")
       /\ err.details.query = calls[id].params.query
       /\ Has(err.details, "options")
       /\ err.details.options = calls[id].params.options
       /\ err.cause = OriginalFailure(id)
       /\ calls[id].argv # <<>> =>
             /\ Has(err.details, "stderr") /\ Has(err.details, "exitCode")
             /\ err.details.stderr = calls[id].outcome.error.stderr
             /\ err.details.exitCode = calls[id].outcome.error.code

\* the details have the status and the body of the response of the call
HasStatusAndBody(id) ==
    LET details == calls[id].result.error.details
    IN /\ Has(details, "status") /\ Has(details, "responseData")
       /\ details.status = JNum(calls[id].outcome.status)
       /\ details.responseData = calls[id].outcome.data

ResponseReceived(id) ==
    calls[id].request # EmptyObject /\ calls[id].outcome.present

MappedCodes ==
    [c \in {"query_execution_failed", "execution_failed",
            "query_execution_failed_1", "query_execution_failed_127",
            "execution_failed_1", "execution_failed_127"} |-> -32003]
    @@ [c \in {"query_execution_failed_2", "execution_failed_2"} |-> -32602]
    @@ [c \in {"query_execution_failed_130", "execution_failed_130"} |-> -32004]
    @@ [c \in {"config_load_error"} |-> -32001]

\* the code the error object of a response is to have for a thrown value
CodeFor(thrown) ==
    IF thrown.name \in {"LokiClientError", "LokiAuthError"}
    THEN IF thrown.code \in DOMAIN MappedCodes THEN MappedCodes[thrown.code]
         ELSE IF thrown.name = "LokiClientError" THEN -32000 ELSE -32002
    ELSE -32603

ContextMessage(tool) ==
    CASE tool = "query-loki" -> "Error running Loki query"
      [] tool = "get-label-values" -> "Error getting label values"
      [] OTHER -> "Error getting labels"

\* C30: a handler whose client call has ended has returned a response with
\* one text item: without isError and without an error object when the
\* call returned; with isError true, the text '<context message>: <message
\* of the thrown value>' and an error object when the call threw, the code
\* of the error object being the mapped code of a LokiClientError or
\* LokiAuthError (-32000 or -32002 for a code outside the mapping) and
\* -32603 for any other thrown value.
C30_HandlerAlwaysAnswers ==
    \A id \in CallIds :
        (calls[id].invoked /\ calls[id].pc = "done") =>
            LET r == calls[id].response
                settled == calls[id].result
            IN /\ Has(r, "content") /\ Len(r.content) = 1
               /\ r.content[1].type = "text"
               /\ settled.ok => DOMAIN r = {"content"}
               /\ ~settled.ok =>
                     /\ DOMAIN r = {"content", "isError", "error"}
                     /\ r.isError = TRUE
                     /\ r.content[1].text =
                           ContextMessage(calls[id].tool) \o ": "
                                \o settled.error.message
                     /\ r.error.code = CodeFor(settled.error)
                     /\ r.error.message = settled.error.message

\* a get-label-values handler whose call threw a value that is no Error
C30_Witness ==
    \E id \in CallIds :
        /\ calls[id].pc = "done" /\ calls[id].tool = "get-label-values"
        /\ ~calls[id].result.ok
        /\ calls[id].result.error.name = ""
        /\ calls[id].response.isError
        /\ calls[id].response.content[1].text = "Error getting label values: closed"
        /\ calls[id].response.error.code = -32603

-----------------------------------------------------------------------------
(* Claims about the process *)

\* C17: an uncaught exception or an unhandled rejection outside a tool
\* invocation never ends the server process: after any number of them the
\* process is running, and a tool call that has not arrived yet can still
\* arrive and be handled.
C17_ProcessKeepsRunning ==
    /\ process.running
    /\ (\E id \in CallIds : calls[id].pc = "idle") =>
            ENABLED (\E id \in CallIds : CallGetLabels(id))

\* after two errors outside the tool calls, the last one a value that is
\* not an Error, a get-labels call has arrived and has been answered
C17_Witness ==
    /\ process.running /\ process.handled >= 2
    /\ process.stderr = "transport error: closed"
    /\ \E id \in CallIds :
          /\ calls[id].tool = "get-labels" /\ calls[id].after >= 2
          /\ calls[id].pc = "done" /\ ~Has(calls[id].response, "isError")
          /\ calls[id].response.content[1].text
                = <<"a", "p", "p", "\n", "j", "o", "b">>

-----------------------------------------------------------------------------
(* Claims about the formatter *)

\* the lines of a text: what a reader sees between line breaks (a last
\* line without a line break counts when it is not empty)
SplitLines(cs) ==
    LET breaks == {i \in DOMAIN cs : cs[i] = "\n"}
        \* the position of the k-th line break; 0 for k = 0
        Break(k) == IF k = 0 THEN 0
                    ELSE CHOOSE p \in breaks :
                            Cardinality({q \in breaks : q < p}) = k - 1
        n == Cardinality(breaks)
        rest == SubSeq(cs, Break(n) + 1, Len(cs))
    IN [k \in 1..n |-> SubSeq(cs, Break(k - 1) + 1, Break(k) - 1)]
       \o (IF rest = <<>> THEN <<>> ELSE <<rest>>)

HasLineBreak(cs) == \E i \in DOMAIN cs : cs[i] = "\n"

AllDigits(cs) == cs # <<>> /\ \A i \in DOMAIN cs : IsDigit(cs[i])

\* a stream as the data model has it: a label set with string values and
\* an array of [nanosecond timestamp, line] pairs of strings
WellFormedStream(e) ==
    /\ e.t = "obj"
    /\ Get(e, K_stream).t = "obj"
    /\ \A i \in DOMAIN Get(e, K_stream).v : Get(e, K_stream).v[i][2].t = "str"
    /\ Get(e, K_values).t = "arr"
    /\ \A i \in DOMAIN Get(e, K_values).v :
          LET pair == Get(e, K_values).v[i] IN
          /\ pair.t = "arr" /\ Len(pair.v) = 2
          /\ pair.v[1].t = "str" /\ AllDigits(pair.v[1].v)
          /\ pair.v[2].t = "str"

ResultOf(body) == Get(Get(body, K_data), K_result)

WellFormedStreams(body) ==
    /\ Get(Get(body, K_data), K_resultType) = JStr(T_streams)
    /\ ResultOf(body).t = "arr"
    /\ \A i \in DOMAIN ResultOf(body).v : WellFormedStream(ResultOf(body).v[i])

\* the text the claim promises for one pair
PairRecord(pair, labels, opts) ==
    IF OutputIs(opts, "jsonl")
    THEN JsonStringify(JObj(<< <<K_timestamp, pair.v[1]>>, <<K_labels, labels>>,
                               <<K_line, pair.v[2]>> >>), 0, 0)
    ELSE IF OutputIs(opts, "raw") THEN pair.v[2].v
    ELSE toISOString(ValidDate(DigitsValue(pair.v[1].v) \div 1000000)).value
         \o <<" ">> \o pair.v[2].v

\* the texts the claim promises for one stream, in order
StreamRecords(e, opts) ==
    (IF Quiet(opts) THEN <<>> ELSE <<formatLabels(Get(e, K_stream)).value>>)
    \o [i \in DOMAIN Get(e, K_values).v |->
            PairRecord(Get(e, K_values).v[i], Get(e, K_stream), opts)]
    \o (IF Quiet(opts) THEN <<>> ELSE << <<>> >>)

ExpectedRecords(body, opts) ==
    Flatten([i \in DOMAIN ResultOf(body).v |->
                StreamRecords(ResultOf(body).v[i], opts)])

RECURSIVE SumLens(_, _)
\* n pairs count n lines with quiet, n + 2 without, summed over the streams
SumLens(entries, extra) ==
    IF entries = <<>> THEN 0
    ELSE Len(Get(Head(entries), K_values).v) + extra + SumLens(Tail(entries), extra)

ExpectedLineCount(body, opts) ==
    SumLens(ResultOf(body).v, IF Quiet(opts) THEN 0 ELSE 2)

\* C5 as stated: the output of a streams envelope is, line for line, one
\* label-set line, one line per pair and one blank line (the first and the
\* last only without quiet), so n pairs make n or n + 2 lines.
C5_OneLinePerPair ==
    (fmtPc = "done" /\ WellFormedStreams(responseData)) =>
        /\ formatted.ok
        /\ SplitLines(formatted.value) = ExpectedRecords(responseData, fmtOptions)
        /\ Len(SplitLines(formatted.value))
              = ExpectedLineCount(responseData, fmtOptions)

\* C5 as amended: the output is the concatenation, in input order, of one
\* text per label set, pair and separator, each followed by one line break;
\* these are the lines of the output, n or n + 2 per stream, whenever none of
\* the texts holds a line break itself; under jsonl the text of a pair never
\* holds one.
C5_OneRecordPerPair ==
    (fmtPc = "done" /\ WellFormedStreams(responseData)) =>
        LET records == ExpectedRecords(responseData, fmtOptions) IN
        /\ formatted.ok
        /\ formatted.value = Flatten([i \in DOMAIN records |-> records[i] \o NL])
        /\ (\A i \in DOMAIN records : ~HasLineBreak(records[i])) =>
              /\ SplitLines(formatted.value) = records
              /\ Len(SplitLines(formatted.value))
                    = ExpectedLineCount(responseData, fmtOptions)
        /\ OutputIs(fmtOptions, "jsonl") =>
              \A i \in DOMAIN ResultOf(responseData).v :
                 LET e == ResultOf(responseData).v[i] IN
                 \A j \in DOMAIN Get(e, K_values).v :
                    ~HasLineBreak(PairRecord(Get(e, K_values).v[j],
                                             Get(e, K_stream), fmtOptions))

\* two streams of two pairs each, raw and not quiet: eight lines
C5_Witness ==
    /\ fmtPc = "done"
    /\ WellFormedStreams(responseData)
    /\ Len(ResultOf(responseData).v) = 2
    /\ OutputIs(fmtOptions, "raw") /\ ~Quiet(fmtOptions)
    /\ formatted.ok
    /\ Join(formatted.value)
          = "{app=\"x\"}\nsay \"hi\"\na;b\n\n{job=\"a b\", app=\"x\"}\na;b\nx\ny\n\n"

\* C6 as stated: a response whose data.result is an empty array formats to
\* the sentinel 'No results found.', whatever its resultType.
C6_EmptyResultIsSentinel ==
    (fmtPc = "done" /\ ResultOf(responseData) = JArr(<<>>)) =>
        formatted = Return(NoResultsFound)

RECURSIVE LabelPairs(_)
\* k1="v1", k2="v2" for the entries of a label set, in their order
LabelPairs(entries) ==
    IF entries = <<>> THEN <<>>
    ELSE Head(entries)[1] \o <<"=", "\"">> \o Head(entries)[2].v \o <<"\"">>
         \o (IF Tail(entries) = <<>> THEN <<>>
             ELSE <<",", " ">> \o LabelPairs(Tail(entries)))

LabelSetText(labels) == <<"{">> \o LabelPairs(labels.v) \o <<"}">>

WellFormedLabels(labels) ==
    labels.t = "obj" /\ \A i \in DOMAIN labels.v : labels.v[i][2].t = "str"

\* a [seconds, value] sample: a number and a string
WellFormedSample(pair) ==
    /\ pair.t = "arr" /\ Len(pair.v) = 2
    /\ pair.v[1].t = "num" /\ pair.v[2].t = "str"

WellFormedVector(body) ==
    /\ Get(Get(body, K_data), K_resultType) = JStr(T_vector)
    /\ ResultOf(body).t = "arr"
    /\ \A i \in DOMAIN ResultOf(body).v :
          LET e == ResultOf(body).v[i] IN
          /\ e.t = "obj" /\ WellFormedLabels(Get(e, K_metric))
          /\ WellFormedSample(Get(e, K_value))

WellFormedMatrix(body) ==
    /\ Get(Get(body, K_data), K_resultType) = JStr(T_matrix)
    /\ ResultOf(body).t = "arr"
    /\ \A i \in DOMAIN ResultOf(body).v :
          LET e == ResultOf(body).v[i] IN
          /\ e.t = "obj" /\ WellFormedLabels(Get(e, K_metric))
          /\ Get(e, K_values).t = "arr"
          /\ \A j \in DOMAIN Get(e, K_values).v :
                WellFormedSample(Get(e, K_values).v[j])

\* the text the claim promises for one entry of a vector
VectorRecord(e) ==
    LabelSetText(Get(e, K_metric)) \o <<" ">> \o Get(e, K_value).v[2].v

\* the texts the claim promises for one entry of a matrix, in order
MatrixRecords(e) ==
    <<LabelSetText(Get(e, K_metric))>>
    \o [j \in DOMAIN Get(e, K_values).v |->
            LET pair == Get(e, K_values).v[j]
            IN <<" ", " ">> \o toISOString(ValidDate(pair.v[1].v * 1000)).value
               \o <<" ">> \o pair.v[2].v]
    \o << <<>> >>

MetricRecords(body) ==
    IF Get(Get(body, K_data), K_resultType) = JStr(T_vector)
    THEN [i \in DOMAIN ResultOf(body).v |-> VectorRecord(ResultOf(body).v[i])]
    ELSE Flatten([i \in DOMAIN ResultOf(body).v |->
                    MatrixRecords(ResultOf(body).v[i])])

\* one line per entry of a vector, n + 2 lines per entry of a matrix with
\* n pairs
MetricLineCount(body) ==
    IF Get(Get(body, K_data), K_resultType) = JStr(T_vector)
    THEN Len(ResultOf(body).v)
    ELSE SumLens(ResultOf(body).v, 2)

WellFormedMetrics(body) == WellFormedVector(body) \/ WellFormedMatrix(body)

\* C28 as stated: the output of a vector envelope has exactly one line per
\* entry, '<label set> <value>', in input order; the output of a matrix
\* envelope has for each entry the label-set line, one line indented by two
\* spaces per pair and one blank line, n + 2 lines for n pairs.
C28_OneLinePerEntry ==
    (fmtPc = "done" /\ WellFormedMetrics(responseData)) =>
        /\ formatted.ok
        /\ SplitLines(formatted.value) = MetricRecords(responseData)
        /\ Len(SplitLines(formatted.value)) = MetricLineCount(responseData)

\* C28 as amended: the output of a vector or matrix envelope is the
\* concatenation, in input order, of one text per entry of a vector, and of
\* the label-set text, one indented text per pair and an empty text per
\* entry of a matrix, each followed by one line break, with the label set
\* as {k1="v1", k2="v2"} in the order of the payload; these texts are the
\* lines of the output, one per entry or n + 2 per entry, whenever no label
\* value and no sample value holds a line break.
C28_OneRecordPerEntry ==
    (fmtPc = "done" /\ WellFormedMetrics(responseData)) =>
        LET records == MetricRecords(responseData) IN
        /\ formatted.ok
        /\ formatted.value = Flatten([i \in DOMAIN records |-> records[i] \o NL])
        /\ (\A i \in DOMAIN records : ~HasLineBreak(records[i])) =>
              /\ SplitLines(formatted.value) = records
              /\ Len(SplitLines(formatted.value)) = MetricLineCount(responseData)

\* a matrix of one entry with two labels and two pairs: four lines
C28_Witness ==
    /\ fmtPc = "done"
    /\ WellFormedMatrix(responseData)
    /\ Len(ResultOf(responseData).v) = 1
    /\ formatted.ok
    /\ Join(formatted.value)
          = "{job=\"a b\", app=\"x\"}\n  1970-01-01T01:00:01.000Z 5\n  1970-01-01T02:01:02.000Z 0.5\n\n"
    /\ Len(SplitLines(formatted.value)) = 4

=============================================================================
